---- MODULE Spec2Model ----
(***************************************************************************)
(* Model of the client-side email authenticity checker                     *)
(* (src/src/components/EmailDetector.tsx): the pure scoring function       *)
(* detect with its string helpers, and the AdvancedEmailDetector component *)
(* state with its handlers.                                                *)
(*                                                                         *)
(* JavaScript strings are TLA+ strings; a character is a string of length  *)
(* one, read with At(s, i).  A value of type `string | null` is a sequence *)
(* of at most one string: <<>> is null, <<s>> is the string s.             *)
(***************************************************************************)
EXTENDS Integers, Sequences, FiniteSets, TLC

VARIABLES
    subject,        \* useState("")      line 300
    fromEmail,      \* useState("")      line 301
    replyTo,        \* useState("")      line 302
    authResults,    \* useState("")      line 303
    attachmentsRaw, \* useState("")      line 304
    body,           \* useState("")      line 305
    treatFree,      \* useState(true)    line 307
    strictBrands,   \* useState(true)    line 308
    threshold,      \* useState(7)       line 309
    result,         \* useState<DetectionResult | null>(null)  line 316
    lastInput,      \* history: the DetectionInput of the latest detect call
    edits,          \* history: number of field handlers run in this session
    \* WebsiteDetector (src/src/components/WebsiteDetector.tsx)
    wdInput,        \* useState("")      line 38
    wdResults,      \* useState<CheckResult[]>([])  line 39
    wdSummary,      \* useState("")      line 40
    wdChecked,      \* history: the argument of the latest validateWebsite call
    wdPrevResults,  \* history: results as the latest validateWebsite call found them
    \* isValidDomain of URLDetector (WebsiteDetector.tsx line 184)
    udDomain,       \* the argument domain
    udValid,        \* the value returned for it, Null before the call
    \* PasswordSecurityAnalyzer (src/unnamed/part_001)
    password,       \* useState("")      line 18
    show,           \* useState(false)   line 19
    showEncryption, \* useState(false)   line 20
    expandedPCs,    \* useState<Record<string, boolean>>({})  line 21
    \* DetectionQuizzes (src/unnamed/part_000)
    active,         \* useState<string>(initialTab ?? tabs[0].id)  line 277
    quiz            \* the state of the QuizShell mounted in each tab, lines 24-28

emailVars == <<subject, fromEmail, replyTo, authResults, attachmentsRaw, body,
               treatFree, strictBrands, threshold, result, lastInput, edits>>
websiteVars == <<wdInput, wdResults, wdSummary, wdChecked, wdPrevResults>>
domainVars == <<udDomain, udValid>>
passwordVars == <<password, show, showEncryption, expandedPCs>>

quizVars == <<active, quiz>>

vars == <<emailVars, websiteVars, domainVars, passwordVars, quizVars>>

-----------------------------------------------------------------------------
(* JavaScript string primitives                                            *)

Null == <<>>
Some(s) == <<s>>
\* JS `m || d` for m : string | null
OrElse(m, d) == IF m = Null THEN d ELSE IF m[1] = "" THEN d ELSE m[1]

\* A JS number that is an integer or NaN: <<n>> or <<>>
NaN == <<>>
Num(n) == <<n>>

\* s.charAt(i - 1): the empty string outside the string
At(s, i) == IF i >= 1 /\ i <= Len(s) THEN SubSeq(s, i, i) ELSE ""

\* the characters the regular-expression class \s matches
Space == {" ", "\t", "\n", "\r"}
Digit == {"0", "1", "2", "3", "4", "5", "6", "7", "8", "9"}
Lower == {"a", "b", "c", "d", "e", "f", "g", "h", "i", "j", "k", "l", "m",
          "n", "o", "p", "q", "r", "s", "t", "u", "v", "w", "x", "y", "z"}
UpperToLower ==
    [A |-> "a", B |-> "b", C |-> "c", D |-> "d", E |-> "e", F |-> "f",
     G |-> "g", H |-> "h", I |-> "i", J |-> "j", K |-> "k", L |-> "l",
     M |-> "m", N |-> "n", O |-> "o", P |-> "p", Q |-> "q", R |-> "r",
     S |-> "s", T |-> "t", U |-> "u", V |-> "v", W |-> "w", X |-> "x",
     Y |-> "y", Z |-> "z"]
Upper == DOMAIN UpperToLower
\* the regular-expression class \w
Word == Lower \cup Upper \cup Digit \cup {"_"}

\* String.prototype.toLowerCase, character by character (the recursion
\* halves the string)
RECURSIVE toLowerCase(_)
toLowerCase(s) ==
    IF Len(s) = 0 THEN ""
    ELSE IF Len(s) = 1 THEN (IF s \in Upper THEN UpperToLower[s] ELSE s)
    ELSE toLowerCase(SubSeq(s, 1, Len(s) \div 2))
         \o toLowerCase(SubSeq(s, Len(s) \div 2 + 1, Len(s)))

\* least index >= i of a character in set, Len(s) + 1 when there is none
FirstIn(s, i, set) ==
    IF \E j \in i..Len(s) : At(s, j) \in set
    THEN CHOOSE j \in i..Len(s) :
             At(s, j) \in set /\ \A k \in i..(j - 1) : At(s, k) \notin set
    ELSE Len(s) + 1

\* least index >= i of a character outside set, Len(s) + 1 when there is none
FirstNotIn(s, i, set) ==
    IF \E j \in i..Len(s) : At(s, j) \notin set
    THEN CHOOSE j \in i..Len(s) :
             At(s, j) \notin set /\ \A k \in i..(j - 1) : At(s, k) \in set
    ELSE Len(s) + 1

\* greatest index <= i of a character in set, 0 when there is none
LastIn(s, i, set) ==
    IF \E j \in 1..i : At(s, j) \in set
    THEN CHOOSE j \in 1..i :
             At(s, j) \in set /\ \A k \in (j + 1)..i : At(s, k) \notin set
    ELSE 0

\* greatest index <= i of a character outside set, 0 when there is none
LastNotIn(s, i, set) ==
    IF \E j \in 1..i : At(s, j) \notin set
    THEN CHOOSE j \in 1..i :
             At(s, j) \notin set /\ \A k \in (j + 1)..i : At(s, k) \in set
    ELSE 0

\* String.prototype.trim
trim(s) == SubSeq(s, FirstNotIn(s, 1, Space), LastNotIn(s, Len(s), Space))

\* String.prototype.includes
includes(s, t) == \E i \in 1..(Len(s) - Len(t) + 1) : SubSeq(s, i, i + Len(t) - 1) = t

\* String.prototype.endsWith
endsWith(s, t) == Len(t) <= Len(s) /\ SubSeq(s, Len(s) - Len(t) + 1, Len(s)) = t

\* String.prototype.startsWith at index i (1-based)
startsWithAt(s, i, t) == i + Len(t) - 1 <= Len(s) /\ SubSeq(s, i, i + Len(t) - 1) = t

\* case-insensitive variant, t in lower case (a literal under the /i flag)
startsWithAtI(s, i, t) ==
    i + Len(t) - 1 <= Len(s) /\ toLowerCase(SubSeq(s, i, i + Len(t) - 1)) = t

\* String.prototype.indexOf from index i (1-based); 0 when t does not occur
indexOf(s, t, i) ==
    LET at(j) == SubSeq(s, j, j + Len(t) - 1) = t
        last == Len(s) - Len(t) + 1
    IN IF \E j \in i..last : at(j)
       THEN CHOOSE j \in i..last : at(j) /\ \A k \in i..(j - 1) : ~at(k)
       ELSE 0

\* String.prototype.split(sep) for a one-character separator
RECURSIVE splitFrom(_, _, _)
splitFrom(s, i, sep) ==
    LET j == FirstIn(s, i, {sep})
    IN IF j > Len(s) THEN <<SubSeq(s, i, Len(s))>>
       ELSE <<SubSeq(s, i, j - 1)>> \o splitFrom(s, j + 1, sep)
split(s, sep) == splitFrom(s, 1, sep)

-----------------------------------------------------------------------------
(* Configuration (lines 50-102)                                            *)

W_keyword == 2
W_suspiciousUrl == 3
W_longDomain == 2
W_punycode == 3
W_brandLookalike == 4
W_freeProviderAsCorp == 2
W_linkMismatch == 3
W_dangerousAttachment == 5
W_macroAttachment == 4
W_doubleExtension == 5
W_replyToMismatch == 4
W_spfFailOrMissing == 3

PHISHING_KEYWORDS ==
    <<"urgent", "verify", "account locked", "password reset", "click here",
      "last warning", "act now", "invoice attached", "bank transfer",
      "payment declined", "confirm your account">>

DANGEROUS_EXTS == <<".exe", ".scr", ".bat", ".vbs", ".js", ".cmd", ".pif", ".jar">>
RISKY_OFFICE_EXTS == <<".docm", ".xlsm", ".pptm">>
FREE_PROVIDERS ==
    <<"gmail.com", "yahoo.com", "outlook.com", "hotmail.com", "live.com",
      "icloud.com", "aol.com">>
HIGH_VALUE_BRANDS ==
    <<"paypal.com", "microsoft.com", "apple.com", "amazon.com", "google.com",
      "netflix.com", "bankofamerica.com", "chase.com">>

\* Array.prototype.includes / some over a configuration list
Elems(list) == {list[i] : i \in 1..Len(list)}

normalizeStr(s) == trim(toLowerCase(s))

-----------------------------------------------------------------------------
(* The tldts library (import, line 26) and the WHATWG URL parser (line     *)
(* 118), as far as detect depends on them.                                 *)

\* An excerpt of the public suffix list: the suffixes of more than one
\* label.  Every other hostname falls under the list's default rule, which
\* makes its last label the suffix.
MultiLabelSuffixes == {"co.uk", "com.cn", "com.au", "co.jp"}

\* tldts extractHostname: drop a scheme, the user information, the port and
\* the path, lower-case, drop trailing dots
tldtsExtractHostname(s) ==
    LET host(low, start, stop) ==
            LET colon == FirstIn(low, start, {":"})
                end == LastNotIn(low, IF colon <= stop THEN colon - 1 ELSE stop, {"."})
            IN IF end < start THEN "" ELSE SubSeq(low, start, end)
        authority(low, start0, stop) ==
            LET at == LastIn(low, stop, {"@"})
            IN host(low, IF at >= start0 THEN at + 1 ELSE start0, stop)
        afterScheme(low, start0) ==
            authority(low, start0, FirstIn(low, start0, {"/", "?", "#"}) - 1)
        withScheme(low, sch) == afterScheme(low, IF sch = 0 THEN 1 ELSE sch + 3)
        lowered(low) == withScheme(low, indexOf(low, "://", 1))
    IN lowered(toLowerCase(s))

\* tldts isProbablyIpv4
isIpv4(h) ==
    /\ Len(h) >= 7 /\ Len(h) <= 15
    /\ \A i \in 1..Len(h) : At(h, i) \in Digit \cup {"."}
    /\ Cardinality({i \in 1..Len(h) : At(h, i) = "."}) = 3
    /\ At(h, Len(h)) # "."

\* tldts isValidHostname
isValidHostname(h) ==
    LET ok(c) == c \in Lower \cup Digit
        dots == {i \in 1..Len(h) : At(h, i) = "."}
        prevDot(i) == IF \E j \in dots : j < i
                      THEN CHOOSE j \in dots : j < i /\ \A k \in dots : k < i => k <= j
                      ELSE 0
    IN /\ Len(h) >= 1 /\ Len(h) <= 255
       /\ (ok(At(h, 1)) \/ At(h, 1) \in {".", "_"})
       /\ \A i \in 1..Len(h) :
            IF At(h, i) = "."
            THEN /\ i - prevDot(i) <= 64
                 /\ (i > 1 => At(h, i - 1) \notin {".", "-", "_"})
            ELSE ok(At(h, i)) \/ At(h, i) \in {"-", "_"}
       /\ Len(h) - prevDot(Len(h) + 1) <= 63
       /\ At(h, Len(h)) # "-"

\* tldts getDomain: the registered domain (public suffix plus one label)
\* d1, d2, d3 are the positions of the last three dots of the hostname h
getDomain(s) ==
    LET domain(h, d1, d2) ==
            LET n == Len(h)
                d3 == LastIn(h, d2 - 1, {"."})
            IN IF h = "" \/ isIpv4(h) \/ ~isValidHostname(h) THEN Null
               ELSE IF d1 = 0 THEN Null
               ELSE IF SubSeq(h, d2 + 1, n) \in MultiLabelSuffixes
                    THEN IF d2 = 0 THEN Null ELSE Some(SubSeq(h, d3 + 1, n))
                    ELSE Some(SubSeq(h, d2 + 1, n))
        labels(h, d1) == domain(h, d1, LastIn(h, d1 - 1, {"."}))
        ofHostname(h) == labels(h, LastIn(h, Len(h), {"."}))
    IN ofHostname(tldtsExtractHostname(s))

\* code points the URL parser refuses in a host
ForbiddenHost ==
    {" ", "\t", "\n", "\r", "#", "/", ":", "<", ">", "?", "@", "[", "\\", "]",
     "^", "|", "%"}

\* new URL(s).hostname for s that starts with http:// or https://; Null
\* when the constructor throws
urlHostname(s) ==
    LET parsed(low, start, stop, colon) ==
            LET end == IF colon <= stop THEN colon - 1 ELSE stop
                host == SubSeq(low, start, end)
                port == SubSeq(low, colon + 1, stop)
            IN IF end < start THEN Null
               ELSE IF \E i \in 1..Len(host) : At(host, i) \in ForbiddenHost THEN Null
               ELSE IF colon <= stop /\ \E i \in 1..Len(port) : At(port, i) \notin Digit
                    THEN Null
               ELSE Some(host)
        hostPort(low, start, stop) == parsed(low, start, stop, FirstIn(low, start, {":"}))
        authority(low, start0, stop) ==
            LET at == LastIn(low, stop, {"@"})
            IN hostPort(low, IF at >= start0 THEN at + 1 ELSE start0, stop)
        afterSlashes(low, start0) ==
            authority(low, start0, FirstIn(low, start0, {"/", "\\", "?", "#"}) - 1)
        lowered(low) ==
            afterSlashes(low, FirstNotIn(low, IF startsWithAt(low, 1, "https://") THEN 9 ELSE 8,
                                         {"/", "\\"}))
    IN lowered(toLowerCase(s))

-----------------------------------------------------------------------------
(* Helpers of EmailDetector.tsx (lines 104-181)                            *)

\* the match of /@([^>\s]+)>?$|@([^\s]+)/ from index i on: m[1] || m[2]
RECURSIVE emailHostFrom(_, _)
emailHostFrom(e, i) ==
    LET p == FirstIn(e, i, {"@"})
        r1 == FirstIn(e, p + 1, Space \cup {">"}) - 1
        r2 == FirstIn(e, p + 1, Space) - 1
    IN IF p > Len(e) THEN Null
       ELSE IF r1 >= p + 1 /\ (r1 = Len(e) \/ (r1 + 1 = Len(e) /\ At(e, r1 + 1) = ">"))
            THEN Some(SubSeq(e, p + 1, r1))
       ELSE IF r2 >= p + 1 THEN Some(SubSeq(e, p + 1, r2))
       ELSE emailHostFrom(e, p + 1)

emailToDomain(email) ==
    LET domainOf(host) ==
            IF host = Null THEN Null
            ELSE Some(OrElse(getDomain(host[1]), host[1]))
    IN domainOf(emailHostFrom(toLowerCase(email), 1))

\* url is new URL(...).hostname, Null when the constructor throws (the
\* catch branch)
safeGetDomainFromUrl(raw) ==
    LET hasScheme == startsWithAtI(raw, 1, "http://") \/ startsWithAtI(raw, 1, "https://")
        domainOf(url) ==
            IF url # Null
            THEN Some(OrElse(getDomain(url[1]), url[1]))
            ELSE getDomain(raw)
    IN domainOf(urlHostname(IF hasScheme THEN raw ELSE "http://" \o raw))

\* the six replace calls, character by character: no replacement produces
\* a character that a later call replaces
RECURSIVE deobfuscateHomoglyphs(_)
deobfuscateHomoglyphs(s) ==
    IF Len(s) = 0 THEN ""
    ELSE IF Len(s) = 1
         THEN CASE s = "0" -> "o" [] s = "1" -> "l" [] s = "3" -> "e"
                [] s = "5" -> "s" [] s = "7" -> "t" [] s = "@" -> "a"
                [] OTHER -> s
    ELSE deobfuscateHomoglyphs(SubSeq(s, 1, Len(s) \div 2))
         \o deobfuscateHomoglyphs(SubSeq(s, Len(s) \div 2 + 1, Len(s)))

\* s.replace(/[^a-z]/g, "")
RECURSIVE keepLetters(_)
keepLetters(s) ==
    IF Len(s) = 0 THEN ""
    ELSE IF Len(s) = 1 THEN (IF s \in Lower THEN s ELSE "")
    ELSE keepLetters(SubSeq(s, 1, Len(s) \div 2))
         \o keepLetters(SubSeq(s, Len(s) \div 2 + 1, Len(s)))

\* looksLikeBrand without the test of line 143
looksLikeBrand_noExact(domain, brandDomain) ==
    LET compare(d, b) ==
            IF includes(d, b) /\ ~endsWith(d, b) THEN TRUE
            ELSE keepLetters(d) = keepLetters(b)
    IN compare(deobfuscateHomoglyphs(toLowerCase(domain)), toLowerCase(brandDomain))

\* lines 140-150
looksLikeBrand(domain, brandDomain) ==
    LET compare(d, b) ==
            IF d = b THEN FALSE
            ELSE IF includes(d, b) /\ ~endsWith(d, b) THEN TRUE
            ELSE keepLetters(d) = keepLetters(b)
    IN compare(deobfuscateHomoglyphs(toLowerCase(domain)), toLowerCase(brandDomain))


\* the end of the match of /https?:\/\/[^\s)]+/i that starts at index p,
\* 0 when there is none
urlMatchEnd(text, p) ==
    LET rest(q) ==
            LET r == FirstIn(text, q, Space \cup {")"}) - 1
            IN IF q = 0 \/ r < q THEN 0 ELSE r
    IN rest(IF startsWithAtI(text, p, "http://") THEN p + 7
            ELSE IF startsWithAtI(text, p, "https://") THEN p + 8
            ELSE 0)

\* text.match(/https?:\/\/[^\s)]+/gi) || [], from index i on
RECURSIVE plainUrlsFrom(_, _)
plainUrlsFrom(text, i) ==
    LET match(p, r) ==
            IF p > Len(text) THEN <<>>
            ELSE IF r = 0 THEN plainUrlsFrom(text, p + 1)
            ELSE <<SubSeq(text, p, r)>> \o plainUrlsFrom(text, r + 1)
        at(p) == match(p, urlMatchEnd(text, p))
    IN at(FirstIn(text, i, {"h", "H"}))

\* the exec loop of /\[([^\]]+)\]\((https?:\/\/[^\s)]+)\)/gi, from index i on
RECURSIVE markdownLinksFrom(_, _)
markdownLinksFrom(text, i) ==
    LET match(p, q, r) ==
            IF p > Len(text) THEN <<>>
            ELSE IF /\ q <= Len(text) /\ q > p + 1
                    /\ At(text, q + 1) = "("
                    /\ r > 0
                    /\ At(text, r + 1) = ")"
                 THEN <<[display |-> SubSeq(text, p + 1, q - 1),
                         href |-> SubSeq(text, q + 2, r)]>>
                      \o markdownLinksFrom(text, r + 2)
            ELSE markdownLinksFrom(text, p + 1)
        label(p, q) == match(p, q, urlMatchEnd(text, q + 2))
        at(p) == label(p, FirstIn(text, p + 1, {"]"}))
    IN at(FirstIn(text, i, {"["}))

\* The match of /<a [^>]*href=\"([^\"]+)\"[^>]*>/i that starts at index p,
\* followed by (.*?)<\/a> when withText: a record, or <<>> when there is
\* none.  h is where href=" starts: the greedy [^>]* takes the last one
\* before the first > for which the rest of the pattern matches.
\* valEnd is the closing quote of the href value, tagEnd the > that ends the
\* tag, close the start of the first </a> after it.
anchorMatchAt(text, p, withText) ==
    LET valEnd(h) == FirstIn(text, h + 6, {"\""})
        tagEnd(ve) == FirstIn(text, ve + 1, {">"})
        close(te) == indexOf(toLowerCase(text), "</a>", te + 1)
        okClose(te, cl) == cl > 0 /\ FirstIn(text, te + 1, {"\n", "\r"}) >= cl
        okTag(h, ve, te) ==
            /\ startsWithAtI(text, h, "href=\"")
            /\ ve <= Len(text) /\ ve > h + 6
            /\ te <= Len(text)
            /\ withText => okClose(te, close(te))
        okValue(h, ve) == okTag(h, ve, tagEnd(ve))
        ok(h) == okValue(h, valEnd(h))
        closed(hm, ve, te, cl) ==
            <<[href |-> SubSeq(text, hm + 6, ve - 1),
               display |-> IF withText THEN SubSeq(text, te + 1, cl - 1) ELSE "",
               end |-> IF withText THEN cl + 3 ELSE te]>>
        tagged(hm, ve, te) == closed(hm, ve, te, close(te))
        valued(hm, ve) == tagged(hm, ve, tagEnd(ve))
        last(H) ==
            IF H = {} THEN <<>>
            ELSE valued(CHOOSE h \in H : \A k \in H : k <= h,
                        valEnd(CHOOSE h \in H : \A k \in H : k <= h))
    IN IF ~startsWithAtI(text, p, "<a ") THEN <<>>
       ELSE last({h \in (p + 3)..(FirstIn(text, p + 3, {">"}) - 6) : ok(h)})

\* the exec loop of the HTML anchor pattern, from index i on
RECURSIVE anchorsFrom(_, _, _)
anchorsFrom(text, i, withText) ==
    LET match(p, m) ==
            IF p > Len(text) THEN <<>>
            ELSE IF m = <<>> THEN anchorsFrom(text, p + 1, withText)
            ELSE <<[display |-> m[1].display, href |-> m[1].href]>>
                 \o anchorsFrom(text, m[1].end + 1, withText)
        at(p) == match(p, anchorMatchAt(text, p, withText))
    IN at(FirstIn(text, i, {"<"}))

\* Set.prototype.add over a list, in insertion order
RECURSIVE addAll(_, _)
addAll(urls, more) ==
    IF more = <<>> THEN urls
    ELSE addAll(IF Head(more) \in Elems(urls) THEN urls ELSE Append(urls, Head(more)),
                Tail(more))

\* plain, then md, then html (lines 156-163)
extractAllUrls(text) ==
    LET hrefs(links) == [k \in 1..Len(links) |-> links[k].href]
    IN addAll(addAll(addAll(<<>>, plainUrlsFrom(text, 1)),
                     hrefs(markdownLinksFrom(text, 1))),
              hrefs(anchorsFrom(text, 1, FALSE)))

extractLinkTextPairs(text) ==
    markdownLinksFrom(text, 1) \o anchorsFrom(text, 1, TRUE)


-----------------------------------------------------------------------------
(* detect (lines 184-296).  acc is the pair of the locals score and        *)
(* reasons; every rule returns the pair after its part of the function.    *)

\* reasons.push(reason); score += weight
Fire(acc, reason, weight) ==
    [score |-> acc.score + weight, reasons |-> Append(acc.reasons, reason)]

\* 1) Keywords, lines 192-198: the loop from keyword k on
RECURSIVE keywordRules(_, _, _)
keywordRules(acc, text, k) ==
    IF k > Len(PHISHING_KEYWORDS) THEN acc
    ELSE LET kw == PHISHING_KEYWORDS[k]
         IN keywordRules(
                IF includes(text, kw)
                THEN Fire(acc, "Contains suspicious phrase: \"" \o kw \o "\"", W_keyword)
                ELSE acc,
                text, k + 1)

\* lines 206-209
longDomainRule(acc, domain) ==
    IF Len(domain) > 40
    THEN Fire(acc, "Very long domain: " \o domain, W_longDomain)
    ELSE acc

\* lines 211-214
punycodeRule(acc, domain) ==
    IF startsWithAt(domain, 1, "xn--")
    THEN Fire(acc, "Punycode domain detected: " \o domain, W_punycode)
    ELSE acc

\* lines 216-220
suspiciousUrlRule(acc, domain) ==
    IF \E w \in {"secure", "login", "update", "verify"} : includes(toLowerCase(domain), w)
    THEN Fire(acc, "Suspicious keyword in domain: " \o domain, W_suspiciousUrl)
    ELSE acc

\* brandLookalikeRule without the break of line 229
RECURSIVE brandLookalikeRule_noBreak(_, _, _, _)
brandLookalikeRule_noBreak(acc, domain, strict, k) ==
    IF ~strict \/ k > Len(HIGH_VALUE_BRANDS) THEN acc
    ELSE brandLookalikeRule_noBreak(
             IF looksLikeBrand(domain, HIGH_VALUE_BRANDS[k])
             THEN Fire(acc, "Brand lookalike detected: " \o domain \o " ~ " \o HIGH_VALUE_BRANDS[k],
                       W_brandLookalike)
             ELSE acc,
             domain, strict, k + 1)

\* lines 222-231: the loop over HIGH_VALUE_BRANDS from brand k on, with its break
RECURSIVE brandLookalikeRule(_, _, _, _)
brandLookalikeRule(acc, domain, strict, k) ==
    IF ~strict \/ k > Len(HIGH_VALUE_BRANDS) THEN acc
    ELSE IF looksLikeBrand(domain, HIGH_VALUE_BRANDS[k])
         THEN Fire(acc, "Brand lookalike detected: " \o domain \o " ~ " \o HIGH_VALUE_BRANDS[k],
                   W_brandLookalike)
    ELSE brandLookalikeRule(acc, domain, strict, k + 1)

\* urlRules with break for continue on line 204: a URL without a domain
\* ends the loop
RECURSIVE urlRules_break(_, _, _, _)
urlRules_break(acc, urls, strict, k) ==
    IF k > Len(urls) THEN acc
    ELSE LET forDomain(domain) ==
                 IF domain = Null \/ domain = Some("") THEN acc
                 ELSE urlRules_break(
                          brandLookalikeRule(
                              suspiciousUrlRule(
                                  punycodeRule(longDomainRule(acc, domain[1]), domain[1]),
                                  domain[1]),
                              domain[1], strict, 1),
                          urls, strict, k + 1)
         IN forDomain(safeGetDomainFromUrl(urls[k]))

\* 2) URLs and domains, lines 200-232: the loop from url k on
RECURSIVE urlRules(_, _, _, _)
urlRules(acc, urls, strict, k) ==
    IF k > Len(urls) THEN acc
    ELSE LET forDomain(domain) ==
                 IF domain = Null \/ domain = Some("") THEN acc
                 ELSE brandLookalikeRule(
                          suspiciousUrlRule(
                              punycodeRule(longDomainRule(acc, domain[1]), domain[1]),
                              domain[1]),
                          domain[1], strict, 1)
         IN urlRules(forDomain(safeGetDomainFromUrl(urls[k])), urls, strict, k + 1)

\* 3) Link text against destination, lines 234-243: the loop from pair k on
RECURSIVE linkRules(_, _, _)
linkRules(acc, pairs, k) ==
    IF k > Len(pairs) THEN acc
    ELSE LET compare(d, disp) ==
                 IF d # "" /\ disp # "" /\ ~includes(disp, d)
                 THEN Fire(acc, "Link text (\"" \o pairs[k].display
                                \o "\") does not match destination (" \o pairs[k].href \o ")",
                           W_linkMismatch)
                 ELSE acc
         IN linkRules(compare(OrElse(safeGetDomainFromUrl(pairs[k].href), ""),
                              normalizeStr(pairs[k].display)),
                      pairs, k + 1)

\* /\.(\w+)\.(exe|bat|scr|cmd|js)$/i on a lower-cased file name
doubleExtension(lower) ==
    \E ext \in {".exe", ".bat", ".scr", ".cmd", ".js"} :
        /\ endsWith(lower, ext)
        /\ LET lastWord == Len(lower) - Len(ext)
               dot == LastNotIn(lower, lastWord, Word)
           IN dot >= 1 /\ dot < lastWord /\ At(lower, dot) = "."

\* lines 250-253
dangerousRule(acc, file, lower) ==
    IF \E ext \in Elems(DANGEROUS_EXTS) : endsWith(lower, ext)
    THEN Fire(acc, "Dangerous attachment: " \o file, W_dangerousAttachment)
    ELSE acc

\* macroRule without its score += line
macroRule_noScore(acc, file, lower) ==
    IF \E ext \in Elems(RISKY_OFFICE_EXTS) : endsWith(lower, ext)
    THEN [acc EXCEPT !.reasons = Append(@, "Macro-enabled Office attachment: " \o file)]
    ELSE acc

\* lines 255-258
macroRule(acc, file, lower) ==
    IF \E ext \in Elems(RISKY_OFFICE_EXTS) : endsWith(lower, ext)
    THEN Fire(acc, "Macro-enabled Office attachment: " \o file, W_macroAttachment)
    ELSE acc

\* lines 260-263
doubleExtensionRule(acc, file, lower) ==
    IF doubleExtension(lower)
    THEN Fire(acc, "Double-extension trick: " \o file, W_doubleExtension)
    ELSE acc

\* 4) Attachments, lines 245-264: the loop from attachment k on
RECURSIVE attachmentRules(_, _, _)
attachmentRules(acc, attachments, k) ==
    IF k > Len(attachments) THEN acc
    ELSE LET forFile(file, lower) ==
                 IF lower = "" THEN acc
                 ELSE doubleExtensionRule(
                          macroRule(dangerousRule(acc, file, lower), file, lower),
                          file, lower)
         IN attachmentRules(forFile(attachments[k], trim(toLowerCase(attachments[k]))),
                            attachments, k + 1)

\* replyToRule without the comparison of the two domains
replyToRule_noCompare(acc, fromDomain, replyToDomain) ==
    IF fromDomain # "" /\ replyToDomain # ""
    THEN Fire(acc, "From (" \o fromDomain \o ") != Reply-To (" \o replyToDomain \o ")",
              W_replyToMismatch)
    ELSE acc

\* replyToRule with score = for score +=
replyToRule_assign(acc, fromDomain, replyToDomain) ==
    IF fromDomain # "" /\ replyToDomain # "" /\ fromDomain # replyToDomain
    THEN [score |-> W_replyToMismatch,
          reasons |-> Append(acc.reasons,
                             "From (" \o fromDomain \o ") != Reply-To (" \o replyToDomain \o ")")]
    ELSE acc

\* 5) From against Reply-To, lines 267-270.  The reason's sign of
\* inequality is written != here.
replyToRule(acc, fromDomain, replyToDomain) ==
    IF fromDomain # "" /\ replyToDomain # "" /\ fromDomain # replyToDomain
    THEN Fire(acc, "From (" \o fromDomain \o ") != Reply-To (" \o replyToDomain \o ")",
              W_replyToMismatch)
    ELSE acc

\* spfRule without toLowerCase
spfRule_caseSensitive(acc, auth) ==
    IF auth # "" /\ ~includes(auth, "spf=pass")
    THEN Fire(acc, "SPF not pass in Authentication-Results", W_spfFailOrMissing)
    ELSE acc

\* SPF, lines 272-278
spfRule(acc, auth) ==
    IF auth # "" /\ ~includes(toLowerCase(auth), "spf=pass")
    THEN Fire(acc, "SPF not pass in Authentication-Results", W_spfFailOrMissing)
    ELSE acc

\* freeProviderRule without the test of the option on line 281
freeProviderRule_anyOption(acc, treatFreeOpt, fromDomain, text) ==
    IF /\ fromDomain # ""
       /\ fromDomain \in Elems(FREE_PROVIDERS)
       /\ \E b \in Elems(HIGH_VALUE_BRANDS) : includes(text, split(b, ".")[1])
    THEN Fire(acc, "Corporate-sounding email sent from free provider (" \o fromDomain \o ")",
              W_freeProviderAsCorp)
    ELSE acc

\* 6) Free providers, lines 280-288
freeProviderRule(acc, treatFreeOpt, fromDomain, text) ==
    IF /\ treatFreeOpt /\ fromDomain # ""
       /\ fromDomain \in Elems(FREE_PROVIDERS)
       /\ \E b \in Elems(HIGH_VALUE_BRANDS) : includes(text, split(b, ".")[1])
    THEN Fire(acc, "Corporate-sounding email sent from free provider (" \o fromDomain \o ")",
              W_freeProviderAsCorp)
    ELSE acc

\* categorize with > for >=
categorize_strict(score, thresholdOpt) ==
    IF thresholdOpt # NaN /\ score > thresholdOpt[1] * 2 THEN "Suspicious"
    ELSE IF thresholdOpt # NaN /\ score > thresholdOpt[1] THEN "Needs Review"
    ELSE "Likely Safe"

\* Final category, lines 290-293.  score is an integer; thresholdOpt is a
\* JS number (NaN, or Num(n)), and a comparison with NaN is false.
categorize(score, thresholdOpt) ==
    IF thresholdOpt # NaN /\ score >= thresholdOpt[1] * 2 THEN "Suspicious"
    ELSE IF thresholdOpt # NaN /\ score >= thresholdOpt[1] THEN "Needs Review"
    ELSE "Likely Safe"

\* detect with the attachment loop run before the URL loop
detect_attachmentsFirst(input) ==
    LET text == normalizeStr(input.subject \o " " \o input.body)
        fromDomain == OrElse(emailToDomain(input.fromEmail), "")
        replyToDomain == OrElse(emailToDomain(input.replyToEmail), "")
        return(acc) ==
            [score |-> acc.score, reasons |-> acc.reasons,
             category |-> categorize(acc.score, input.options.threshold)]
        a1 == keywordRules([score |-> 0, reasons |-> <<>>], text, 1)
        a2 == attachmentRules(a1, input.attachments, 1)
        a3 == urlRules(a2, extractAllUrls(input.body), input.options.strictBrandLookalikes, 1)
        a4 == linkRules(a3, extractLinkTextPairs(input.body), 1)
        a5 == replyToRule(a4, fromDomain, replyToDomain)
        a6 == spfRule(a5, input.authResults)
        a7 == freeProviderRule(a6, input.options.treatFreeProvidersAsSuspicious,
                               fromDomain, text)
    IN return(a7)

detect(input) ==
    LET text == normalizeStr(input.subject \o " " \o input.body)
        fromDomain == OrElse(emailToDomain(input.fromEmail), "")
        replyToDomain == OrElse(emailToDomain(input.replyToEmail), "")
        return(acc) ==
            [score |-> acc.score, reasons |-> acc.reasons,
             category |-> categorize(acc.score, input.options.threshold)]
        a1 == keywordRules([score |-> 0, reasons |-> <<>>], text, 1)
        a2 == urlRules(a1, extractAllUrls(input.body), input.options.strictBrandLookalikes, 1)
        a3 == linkRules(a2, extractLinkTextPairs(input.body), 1)
        a4 == attachmentRules(a3, input.attachments, 1)
        a5 == replyToRule(a4, fromDomain, replyToDomain)
        a6 == spfRule(a5, input.authResults)
        a7 == freeProviderRule(a6, input.options.treatFreeProvidersAsSuspicious,
                               fromDomain, text)
    IN return(a7)


-----------------------------------------------------------------------------
(* The component AdvancedEmailDetector (lines 299-515)                     *)

\* parseInt(s, 10): white space, a sign, then the longest run of digits
digitValue(c) == CHOOSE n \in 0..9 : At("0123456789", n + 1) = c

RECURSIVE digitsValue(_, _, _, _)
digitsValue(s, i, last, acc) ==
    IF i > last THEN acc
    ELSE digitsValue(s, i + 1, last, acc * 10 + digitValue(At(s, i)))

parseInt(s) ==
    LET a == FirstNotIn(s, 1, Space)
        neg == At(s, a) = "-"
        first == IF At(s, a) \in {"-", "+"} THEN a + 1 ELSE a
        last == FirstNotIn(s, first, Digit) - 1
        n == digitsValue(s, first, last, 0)
    IN IF last < first THEN NaN ELSE Num(IF neg THEN 0 - n ELSE n)

\* Array.prototype.filter(Boolean) after map(trim), lines 311-314
RECURSIVE trimAndFilter(_, _)
trimAndFilter(parts, k) ==
    IF k > Len(parts) THEN <<>>
    ELSE (IF trim(parts[k]) = "" THEN <<>> ELSE <<trim(parts[k])>>)
         \o trimAndFilter(parts, k + 1)

attachmentsOf(raw) == trimAndFilter(split(raw, ","), 1)

\* the argument analyze() builds, lines 319-331
CurrentInput ==
    [subject |-> subject, body |-> body, fromEmail |-> fromEmail,
     replyToEmail |-> replyTo, authResults |-> authResults,
     attachments |-> attachmentsOf(attachmentsRaw),
     options |-> [treatFreeProvidersAsSuspicious |-> treatFree,
                  strictBrandLookalikes |-> strictBrands,
                  threshold |-> threshold]]

SafeSubject == "Your July invoice is ready"
SafeFrom == "billing@legitvendor.com"
SafeAuth == "spf=pass dkim=pass dmarc=pass"
SafeAttachments == "invoice.pdf"
SafeBody ==
    "Hi team, your July invoice is attached as a PDF. You can also view it in your account portal at https://portal.legitvendor.com.\n\nIf you have questions, reply to this email."

SuspiciousSubject == "URGENT: Verify your PayPal account now"
SuspiciousFrom == "support@paypa1.com"
SuspiciousReplyTo == "helpcenter@gmail.com"
SuspiciousAuth == "spf=fail dkim=none"
SuspiciousAttachments == "invoice.docm, setup.exe"
SuspiciousBody ==
    "Dear user, your account is locked. Click here immediately to verify: [PayPal Secure](http://secure-paypal.com-login.cn)."

\* the other components as constructed: the useState initial values of
\* WebsiteDetector (lines 38-40) and PasswordSecurityAnalyzer (lines 18-21),
\* and no call of isValidDomain yet
WebsiteInit ==
    /\ wdInput = "" /\ wdResults = <<>> /\ wdSummary = ""
    /\ wdChecked = Null /\ wdPrevResults = <<>>

DomainInit == udDomain = "" /\ udValid = Null

PasswordInit ==
    /\ password = "" /\ show = FALSE /\ showEncryption = FALSE
    /\ expandedPCs = <<>>

\* the question banks, lines 134-252: the answer of each question and the
\* number of its choices
phishingQuestions ==
    <<[id |-> 1, answer |-> 0, choices |-> 4], [id |-> 2, answer |-> 1, choices |-> 4],
      [id |-> 3, answer |-> 1, choices |-> 4]>>
websiteQuestions ==
    <<[id |-> 1, answer |-> 1, choices |-> 4], [id |-> 2, answer |-> 1, choices |-> 4]>>
emailQuestions ==
    <<[id |-> 1, answer |-> 1, choices |-> 4], [id |-> 2, answer |-> 1, choices |-> 4]>>
urlQuestions ==
    <<[id |-> 1, answer |-> 1, choices |-> 4], [id |-> 2, answer |-> 2, choices |-> 4]>>

\* lines 270-275, with the questions of the QuizShell that comp mounts
\* (lines 255-266)
tabs ==
    <<[id |-> "phish", label |-> "Phishing", questions |-> phishingQuestions],
      [id |-> "website", label |-> "Websites", questions |-> websiteQuestions],
      [id |-> "email", label |-> "Emails", questions |-> emailQuestions],
      [id |-> "url", label |-> "URLs", questions |-> urlQuestions]>>

TabIds == {tabs[k].id : k \in 1..Len(tabs)}

\* QuizShell as mounted, lines 24-28
QuizShellInit ==
    [index |-> 0, selected |-> Null, score |-> 0, showExplanation |-> FALSE,
     finished |-> FALSE]

\* DetectionQuizzes as App mounts it, without initialTab (App.tsx line 76)
QuizInit ==
    /\ active = tabs[1].id
    /\ quiz = [t \in TabIds |-> QuizShellInit]

\* Bound on the length of a session: the number of field handlers run
MaxEdits == 3

\* what the session types into a text field, and into the threshold field
TypedTexts == {"", " "}
TypedThresholds == {"", "0", "3", "20", ".5"}

Edit == edits < MaxEdits /\ edits' = edits + 1

\* AdvancedEmailDetector as constructed, lines 300-316
EmailInit ==
    /\ subject = "" /\ fromEmail = "" /\ replyTo = "" /\ authResults = ""
    /\ attachmentsRaw = "" /\ body = ""
    /\ treatFree = TRUE /\ strictBrands = TRUE
    /\ threshold = Num(7)
    /\ result = Null /\ lastInput = Null
    /\ edits = 0

Init == EmailInit /\ WebsiteInit /\ DomainInit /\ PasswordInit /\ QuizInit

\* onChange handlers, lines 372-414
setSubject ==
    /\ Edit /\ \E v \in TypedTexts : subject' = v
    /\ UNCHANGED <<fromEmail, replyTo, authResults, attachmentsRaw, body, treatFree,
                   strictBrands, threshold, result, lastInput>>
    /\ UNCHANGED <<websiteVars, domainVars, passwordVars, quizVars>>

setFromEmail ==
    /\ Edit /\ \E v \in TypedTexts : fromEmail' = v
    /\ UNCHANGED <<subject, replyTo, authResults, attachmentsRaw, body, treatFree,
                   strictBrands, threshold, result, lastInput>>
    /\ UNCHANGED <<websiteVars, domainVars, passwordVars, quizVars>>

setReplyTo ==
    /\ Edit /\ \E v \in TypedTexts : replyTo' = v
    /\ UNCHANGED <<subject, fromEmail, authResults, attachmentsRaw, body, treatFree,
                   strictBrands, threshold, result, lastInput>>
    /\ UNCHANGED <<websiteVars, domainVars, passwordVars, quizVars>>

setAuthResults ==
    /\ Edit /\ \E v \in TypedTexts : authResults' = v
    /\ UNCHANGED <<subject, fromEmail, replyTo, attachmentsRaw, body, treatFree,
                   strictBrands, threshold, result, lastInput>>
    /\ UNCHANGED <<websiteVars, domainVars, passwordVars, quizVars>>

setAttachmentsRaw ==
    /\ Edit /\ \E v \in TypedTexts : attachmentsRaw' = v
    /\ UNCHANGED <<subject, fromEmail, replyTo, authResults, body, treatFree,
                   strictBrands, threshold, result, lastInput>>
    /\ UNCHANGED <<websiteVars, domainVars, passwordVars, quizVars>>

setBody ==
    /\ Edit /\ \E v \in TypedTexts : body' = v
    /\ UNCHANGED <<subject, fromEmail, replyTo, authResults, attachmentsRaw, treatFree,
                   strictBrands, threshold, result, lastInput>>
    /\ UNCHANGED <<websiteVars, domainVars, passwordVars, quizVars>>

\* the checkboxes, lines 437-451: e.target.checked is the other value
setTreatFree ==
    /\ Edit /\ treatFree' = ~treatFree
    /\ UNCHANGED <<subject, fromEmail, replyTo, authResults, attachmentsRaw, body,
                   strictBrands, threshold, result, lastInput>>
    /\ UNCHANGED <<websiteVars, domainVars, passwordVars, quizVars>>

setStrictBrands ==
    /\ Edit /\ strictBrands' = ~strictBrands
    /\ UNCHANGED <<subject, fromEmail, replyTo, authResults, attachmentsRaw, body,
                   treatFree, threshold, result, lastInput>>
    /\ UNCHANGED <<websiteVars, domainVars, passwordVars, quizVars>>

\* the threshold field, line 460
setThreshold ==
    /\ Edit
    /\ \E v \in TypedThresholds : threshold' = parseInt(IF v = "" THEN "7" ELSE v)
    /\ UNCHANGED <<subject, fromEmail, replyTo, authResults, attachmentsRaw, body,
                   treatFree, strictBrands, result, lastInput>>
    /\ UNCHANGED <<websiteVars, domainVars, passwordVars, quizVars>>

\* lines 335-344
fillSafeExample ==
    /\ Edit
    /\ subject' = SafeSubject
    /\ fromEmail' = SafeFrom
    /\ replyTo' = SafeFrom
    /\ authResults' = SafeAuth
    /\ attachmentsRaw' = SafeAttachments
    /\ body' = SafeBody
    /\ UNCHANGED <<treatFree, strictBrands, threshold, result, lastInput>>
    /\ UNCHANGED <<websiteVars, domainVars, passwordVars, quizVars>>

\* lines 346-355
fillSuspiciousExample ==
    /\ Edit
    /\ subject' = SuspiciousSubject
    /\ fromEmail' = SuspiciousFrom
    /\ replyTo' = SuspiciousReplyTo
    /\ authResults' = SuspiciousAuth
    /\ attachmentsRaw' = SuspiciousAttachments
    /\ body' = SuspiciousBody
    /\ UNCHANGED <<treatFree, strictBrands, threshold, result, lastInput>>
    /\ UNCHANGED <<websiteVars, domainVars, passwordVars, quizVars>>

\* lines 318-333
analyze ==
    /\ result' = Some(detect(CurrentInput))
    /\ lastInput' = Some(CurrentInput)
    /\ UNCHANGED <<subject, fromEmail, replyTo, authResults, attachmentsRaw, body,
                   treatFree, strictBrands, threshold, edits>>
    /\ UNCHANGED <<websiteVars, domainVars, passwordVars, quizVars>>

Next ==
    \/ setSubject \/ setFromEmail \/ setReplyTo \/ setAuthResults
    \/ setAttachmentsRaw \/ setBody \/ setTreatFree \/ setStrictBrands
    \/ setThreshold \/ fillSafeExample \/ fillSuspiciousExample \/ analyze

Spec == Init /\ [][Next]_vars


-----------------------------------------------------------------------------
(* detect as a function: the component holds any input of the sets below  *)
(* and analyze() applies detect to it.                                     *)

DetectSubjects == {"", "Urgent: verify your PayPal account"}
DetectBodies ==
    {"",
     "Act now: http://paypa1.com/login",
     "[PayPal](http://pay-pal.com) http://xn--login-x.com",
     "<a href=\"http://paypal.com.au/x\">paypal.com</a> verify",
     "go http://secure-update-verification-center-accounts.com now",
     "see https://www.apple.com and https://www.apple.com."}
DetectFroms == {"", "billing@legitvendor.com", "PayPal <service@gmail.com>"}
DetectReplyTos == {"", "help@mail.legitvendor.com", "helpcenter@gmail.com"}
DetectAuths == {"", " ", "SPF=Pass dkim=pass", "spf=fail dkim=none"}
DetectAttachments == {"", "invoice.pdf", "invoice.docm, report.pdf.exe"}
DetectThresholds == {NaN, Num(3), Num(7)}

InitDetect ==
    /\ subject \in DetectSubjects
    /\ body \in DetectBodies
    /\ fromEmail \in DetectFroms
    /\ replyTo \in DetectReplyTos
    /\ authResults \in DetectAuths
    /\ attachmentsRaw \in DetectAttachments
    /\ treatFree \in BOOLEAN /\ strictBrands \in BOOLEAN
    /\ threshold \in DetectThresholds
    /\ result = Null /\ lastInput = Null
    /\ edits = 0
    /\ WebsiteInit /\ DomainInit /\ PasswordInit /\ QuizInit

NextDetect == analyze

\* the inputs whose extensions by one more trigger are compared
InitMonotone ==
    /\ InitDetect
    /\ subject = ""
    /\ threshold = Num(7)

SpecMonotone == InitMonotone /\ [][NextDetect]_vars

SpecDetect == InitDetect /\ [][NextDetect]_vars


-----------------------------------------------------------------------------
(* detect on bodies with links: malformed URLs, brand domains, lookalikes  *)

\* a label of 64 characters: the URL parser accepts it, tldts does not, so
\* that getDomain is null and the domain is the whole hostname (line 120)
LongLabel == "aaaaaaaaaaaaaaaaaaaaaaaaaaaaaaaaaaaaaaaaaaaaaaaaaaaaaaaaaaaaaaaa"

UrlBodies ==
    {"",
     "<a href=\"http://pay pal.com/\">PayPal</a> then http://secure-login.example.com",
     "http://a:b/ [Apple](http://a:b/) http://xn--login-x.com",
     "see https://www.apple.com and HTTP://PayPal.COM/login and https://google.com",
     "http://paypal.com.apple.com." \o LongLabel \o ".cn/x",
     "http://pay-pal.com http://paypal.com.au http://g00gle.com",
     "[x](http://pay-pal.com/a) http://pay-pal.com/b <a href=\"chase.com.\">chase</a>"}

InitUrl ==
    /\ subject = ""
    /\ body \in UrlBodies
    /\ fromEmail = "" /\ replyTo = ""
    /\ authResults \in {"", "spf=fail"}
    /\ attachmentsRaw \in {"", "setup.exe"}
    /\ treatFree = TRUE /\ strictBrands \in BOOLEAN
    /\ threshold \in {Num(3), Num(7)}
    /\ result = Null /\ lastInput = Null
    /\ edits = 0
    /\ WebsiteInit /\ DomainInit /\ PasswordInit /\ QuizInit

SpecUrl == InitUrl /\ [][NextDetect]_vars


-----------------------------------------------------------------------------
(* Properties                                                              *)

Analysed == result # Null
Res == result[1]
In == lastInput[1]

\* JS >= between an integer and a JS number
Geq(n, num) == num # NaN /\ n >= num[1]
Twice(num) == IF num = NaN THEN NaN ELSE Num(2 * num[1])

\* C1: the category returned by detect is 'Suspicious' exactly when
\* score >= 2*threshold, 'Needs Review' exactly when
\* threshold <= score < 2*threshold, and 'Likely Safe' otherwise; it is
\* always one of the three.
C1_CategoryByThreshold ==
    Analysed =>
        LET t == In.options.threshold
            high == Geq(Res.score, Twice(t))
            mid == Geq(Res.score, t) /\ ~high
        IN /\ Res.category \in {"Suspicious", "Needs Review", "Likely Safe"}
           /\ (Res.category = "Suspicious") <=> high
           /\ (Res.category = "Needs Review") <=> mid
           /\ (Res.category = "Likely Safe") <=> (~high /\ ~mid)

\* a score that sits exactly on the threshold has been categorised
C1_Witness ==
    /\ Analysed
    /\ In.options.threshold # NaN
    /\ Res.score = In.options.threshold[1]
    /\ Res.category = "Needs Review"


\* The reason templates of detect in rule evaluation order: the text a
\* reason starts with, its weight, and its group (1 keywords, 2 per-URL
\* rules, 3 link text, 4 attachments, 5 From/Reply-To, 6 SPF, 7 free
\* provider).
ReasonTable ==
    <<[name |-> "keyword", prefix |-> "Contains suspicious phrase: \"",
       weight |-> W_keyword, group |-> 1],
      [name |-> "longDomain", prefix |-> "Very long domain: ",
       weight |-> W_longDomain, group |-> 2],
      [name |-> "punycode", prefix |-> "Punycode domain detected: ",
       weight |-> W_punycode, group |-> 2],
      [name |-> "suspiciousUrl", prefix |-> "Suspicious keyword in domain: ",
       weight |-> W_suspiciousUrl, group |-> 2],
      [name |-> "brandLookalike", prefix |-> "Brand lookalike detected: ",
       weight |-> W_brandLookalike, group |-> 2],
      [name |-> "linkMismatch", prefix |-> "Link text (\"",
       weight |-> W_linkMismatch, group |-> 3],
      [name |-> "dangerousAttachment", prefix |-> "Dangerous attachment: ",
       weight |-> W_dangerousAttachment, group |-> 4],
      [name |-> "macroAttachment", prefix |-> "Macro-enabled Office attachment: ",
       weight |-> W_macroAttachment, group |-> 4],
      [name |-> "doubleExtension", prefix |-> "Double-extension trick: ",
       weight |-> W_doubleExtension, group |-> 4],
      [name |-> "replyToMismatch", prefix |-> "From (",
       weight |-> W_replyToMismatch, group |-> 5],
      [name |-> "spfFailOrMissing", prefix |-> "SPF not pass in Authentication-Results",
       weight |-> W_spfFailOrMissing, group |-> 6],
      [name |-> "freeProviderAsCorp", prefix |-> "Corporate-sounding email sent from free provider (",
       weight |-> W_freeProviderAsCorp, group |-> 7]>>

\* the index of a template in ReasonTable
K_keyword == CHOOSE k \in 1..Len(ReasonTable) : ReasonTable[k].name = "keyword"
K_long == CHOOSE k \in 1..Len(ReasonTable) : ReasonTable[k].name = "longDomain"
K_punycode == CHOOSE k \in 1..Len(ReasonTable) : ReasonTable[k].name = "punycode"
K_suspiciousUrl == CHOOSE k \in 1..Len(ReasonTable) : ReasonTable[k].name = "suspiciousUrl"
K_brand == CHOOSE k \in 1..Len(ReasonTable) : ReasonTable[k].name = "brandLookalike"
K_link == CHOOSE k \in 1..Len(ReasonTable) : ReasonTable[k].name = "linkMismatch"
K_dangerous == CHOOSE k \in 1..Len(ReasonTable) : ReasonTable[k].name = "dangerousAttachment"
K_macro == CHOOSE k \in 1..Len(ReasonTable) : ReasonTable[k].name = "macroAttachment"
K_double == CHOOSE k \in 1..Len(ReasonTable) : ReasonTable[k].name = "doubleExtension"
K_replyTo == CHOOSE k \in 1..Len(ReasonTable) : ReasonTable[k].name = "replyToMismatch"
K_spf == CHOOSE k \in 1..Len(ReasonTable) : ReasonTable[k].name = "spfFailOrMissing"
K_free == CHOOSE k \in 1..Len(ReasonTable) : ReasonTable[k].name = "freeProviderAsCorp"

IsKind(reason, k) == startsWithAt(reason, 1, ReasonTable[k].prefix)
\* the template of a reason: 0 when it has none
KindOf(reason) ==
    IF \E k \in 1..Len(ReasonTable) : IsKind(reason, k)
    THEN CHOOSE k \in 1..Len(ReasonTable) : IsKind(reason, k)
    ELSE 0
HasReason(reasons, k) == \E i \in 1..Len(reasons) : IsKind(reasons[i], k)
CountReason(reasons, k) == Cardinality({i \in 1..Len(reasons) : IsKind(reasons[i], k)})

RECURSIVE SumWeights(_, _)
SumWeights(reasons, i) ==
    IF i > Len(reasons) THEN 0
    ELSE ReasonTable[KindOf(reasons[i])].weight + SumWeights(reasons, i + 1)

\* C7: the score detect returns is the sum of the fixed weights of the
\* reasons it returns, so it is a non-negative integer and it is 0 exactly
\* when there is no reason.
C7_ScoreIsSumOfWeights ==
    Analysed =>
        /\ \A i \in 1..Len(Res.reasons) : KindOf(Res.reasons[i]) # 0
        /\ Res.score = SumWeights(Res.reasons, 1)
        /\ Res.score >= 0
        /\ (Res.score = 0) <=> (Res.reasons = <<>>)

\* an input that fired rules of four groups, among them a macro attachment
C7_Witness ==
    /\ Analysed
    /\ HasReason(Res.reasons, K_keyword) /\ HasReason(Res.reasons, K_brand)
    /\ HasReason(Res.reasons, K_macro) /\ HasReason(Res.reasons, K_spf)
    /\ Res.score >= W_keyword + W_brandLookalike + W_macroAttachment + W_spfFailOrMissing

\* the keyword a keyword reason names, as its index in PHISHING_KEYWORDS
KeywordIndex(reason) ==
    CHOOSE k \in 1..Len(PHISHING_KEYWORDS) :
        reason = ReasonTable[K_keyword].prefix \o PHISHING_KEYWORDS[k] \o "\""

\* reason belongs to the url: it is one of the four per-URL templates
\* filled with the url's domain
IsUrlReasonOf(reason, url) ==
    LET domain == safeGetDomainFromUrl(url)
    IN /\ domain # Null
       /\ \/ \E k \in {K_long, K_punycode, K_suspiciousUrl} :
                reason = ReasonTable[k].prefix \o domain[1]
          \/ startsWithAt(reason, 1, ReasonTable[K_brand].prefix \o domain[1] \o " ~ ")

\* reason belongs to the attachment: one of the three attachment templates
\* filled with the file name
IsAttachmentReasonOf(reason, file) ==
    \E k \in {K_dangerous, K_macro, K_double} : reason = ReasonTable[k].prefix \o file

\* C8: the reasons are in rule evaluation order: keyword reasons in
\* keyword-list order, then the per-URL reasons URL by URL (long domain,
\* punycode, suspicious keyword, brand lookalike), then link-text
\* mismatches, then attachment reasons attachment by attachment, then the
\* From/Reply-To reason, the SPF reason and the free-provider reason; no
\* reason of a later group precedes one of an earlier group.
C8_ReasonsInRuleOrder ==
    Analysed =>
        LET rs == Res.reasons
            n == Len(rs)
            group(i) == ReasonTable[KindOf(rs[i])].group
            urls == extractAllUrls(In.body)
            files == In.attachments
            U == {i \in 1..n : group(i) = 2}
            A == {i \in 1..n : group(i) = 4}
        IN /\ \A i, j \in 1..n : i < j => group(i) <= group(j)
           /\ \A i, j \in 1..n :
                (i < j /\ IsKind(rs[i], K_keyword) /\ IsKind(rs[j], K_keyword))
                    => KeywordIndex(rs[i]) < KeywordIndex(rs[j])
           /\ \E f \in [U -> 1..Len(urls)] :
                /\ \A i \in U : IsUrlReasonOf(rs[i], urls[f[i]])
                /\ \A i, j \in U : i < j =>
                      \/ f[i] < f[j]
                      \/ f[i] = f[j] /\ KindOf(rs[i]) < KindOf(rs[j])
           /\ \E f \in [A -> 1..Len(files)] :
                /\ \A i \in A : IsAttachmentReasonOf(rs[i], files[f[i]])
                /\ \A i, j \in A : i < j =>
                      \/ f[i] < f[j]
                      \/ f[i] = f[j] /\ KindOf(rs[i]) < KindOf(rs[j])
           /\ \A k \in {K_replyTo, K_spf, K_free} : CountReason(rs, k) <= 1

\* an input whose reasons come from all seven groups, two of them from the
\* same URL and two from the same attachment
C8_Witness ==
    /\ Analysed
    /\ \A k \in {K_keyword, K_punycode, K_suspiciousUrl, K_brand, K_link, K_dangerous,
                 K_macro, K_double, K_replyTo, K_spf, K_free} : HasReason(Res.reasons, k)

\* the score of the same input with a passing SPF result in the header
ScoreWithSpfPass == detect([In EXCEPT !.authResults = "spf=pass"]).score
SpfPass == includes(toLowerCase(In.authResults), "spf=pass")

\* C9 as stated: the SPF rule fires whenever the Authentication-Results text
\* does not contain 'spf=pass' (case-insensitively), a missing or empty text
\* included, adding its reason and 3 points; with 'spf=pass' it adds neither.
C9_SpfFiresOnAnyAbsence ==
    Analysed =>
        IF SpfPass
        THEN CountReason(Res.reasons, K_spf) = 0 /\ Res.score = ScoreWithSpfPass
        ELSE CountReason(Res.reasons, K_spf) = 1 /\ Res.score = ScoreWithSpfPass + 3

\* C9 as amended: the SPF rule fires exactly when the Authentication-Results
\* text is not empty and does not contain 'spf=pass' (case-insensitively); it
\* then adds the reason 'SPF not pass in Authentication-Results' once and 3
\* points, and it adds neither when the text is empty or contains 'spf=pass'.
C9_SpfFiresOnNonEmptyAbsence ==
    Analysed =>
        IF In.authResults # "" /\ ~SpfPass
        THEN /\ CountReason(Res.reasons, K_spf) = 1
             /\ "SPF not pass in Authentication-Results" \in Elems(Res.reasons)
             /\ Res.score = ScoreWithSpfPass + 3
        ELSE CountReason(Res.reasons, K_spf) = 0 /\ Res.score = ScoreWithSpfPass

\* a header that is not empty and has no spf=pass has been analysed, and
\* the SPF reason was added
C9_Witness ==
    /\ Analysed
    /\ In.authResults # "" /\ ~SpfPass
    /\ HasReason(Res.reasons, K_spf)

\* d differs from brand only by the substitutions 0/o, 1/l, 3/e, 5/s, 7/t
HomoglyphVariant(d, brand) ==
    /\ d # brand /\ Len(d) = Len(brand)
    /\ \A i \in 1..Len(d) :
          \/ At(d, i) = At(brand, i)
          \/ <<At(d, i), At(brand, i)>> \in
                {<<"0", "o">>, <<"1", "l">>, <<"3", "e">>, <<"5", "s">>, <<"7", "t">>}

\* C4: a domain that differs from a listed brand domain only by homoglyph
\* substitutions is flagged by looksLikeBrand, so with strict brand checks a
\* URL on it adds a 'Brand lookalike detected' reason.
C4_HomoglyphDomainFlagged ==
    (Analysed /\ In.options.strictBrandLookalikes) =>
        \A url \in Elems(extractAllUrls(In.body)) : \A brand \in Elems(HIGH_VALUE_BRANDS) :
            LET domain == safeGetDomainFromUrl(url)
            IN (domain # Null /\ HomoglyphVariant(OrElse(domain, ""), brand)) =>
                  /\ looksLikeBrand(domain[1], brand)
                  /\ ("Brand lookalike detected: " \o domain[1] \o " ~ " \o brand)
                        \in Elems(Res.reasons)


\* one more trigger condition: a file name, a phrase or URL after white
\* space at the end of the body, a Reply-To on another domain than From, an
\* Authentication-Results text without spf=pass
AddedAttachments == {"setup.exe", "notes.txt"}
AddedBodyTexts == {"act now", "http://pay-pal.com"}
AddedReplyTos == {"helpcenter@gmail.com", "ceo@other.org"}
AddedAuths == {"dkim=pass"}

OneMoreTrigger(input) ==
    {[input EXCEPT !.attachments = Append(@, f)] : f \in AddedAttachments}
    \cup {[input EXCEPT !.body = @ \o " " \o t] : t \in AddedBodyTexts}
    \cup {[input EXCEPT !.replyToEmail = r] :
            r \in {x \in AddedReplyTos : emailToDomain(x) # emailToDomain(input.fromEmail)}}
    \cup {[input EXCEPT !.authResults = a] : a \in AddedAuths}

\* C5: adding one more trigger condition to an input, everything else
\* unchanged, never yields a lower score.
C5_Monotone ==
    Analysed => \A more \in OneMoreTrigger(In) : detect(more).score >= Res.score

\* an input that already scores has been analysed, and one more trigger
\* raises its score
C5_Witness ==
    /\ Analysed
    /\ Res.score > W_replyToMismatch
    /\ \E more \in OneMoreTrigger(In) :
          more.replyToEmail # In.replyToEmail /\ detect(more).score > Res.score


\* the options of a component whose option fields were never touched
DefaultOptions ==
    [treatFreeProvidersAsSuspicious |-> TRUE, strictBrandLookalikes |-> TRUE,
     threshold |-> Num(7)]

SafeExampleInput ==
    [subject |-> "Your July invoice is ready", body |-> SafeBody,
     fromEmail |-> "billing@legitvendor.com", replyToEmail |-> "billing@legitvendor.com",
     authResults |-> "spf=pass dkim=pass dmarc=pass",
     attachments |-> <<"invoice.pdf">>, options |-> DefaultOptions]

SuspiciousExampleInput ==
    [subject |-> SuspiciousSubject, body |-> SuspiciousBody,
     fromEmail |-> "support@paypa1.com", replyToEmail |-> "helpcenter@gmail.com",
     authResults |-> "spf=fail dkim=none",
     attachments |-> <<"invoice.docm", "setup.exe">>, options |-> DefaultOptions]

\* C2: detect on the suspicious example with the default options yields
\* score >= 2*threshold, category 'Suspicious' and reasons that include a
\* brand-lookalike entry, a link-mismatch entry, a dangerous-attachment
\* entry, a reply-to-mismatch entry and an SPF entry.
C2_SuspiciousExample ==
    (Analysed /\ In = SuspiciousExampleInput) =>
        /\ Res.score >= 2 * 7
        /\ Res.category = "Suspicious"
        /\ \A k \in {K_brand, K_link, K_dangerous, K_replyTo, K_spf} :
              HasReason(Res.reasons, k)

\* C3: detect on the safe example with the default options yields score 0,
\* no reasons and category 'Likely Safe'.
C3_SafeExample ==
    (Analysed /\ In = SafeExampleInput) =>
        Res = [score |-> 0, reasons |-> <<>>, category |-> "Likely Safe"]

\* the safe example has been loaded and analysed
C3_Witness == Analysed /\ In = SafeExampleInput

Blank(s) == trim(s) = ""

\* C10: detect on an input whose text fields are all empty or blank and
\* whose attachment list is empty returns score 0, no reasons and category
\* 'Likely Safe', whatever threshold the threshold field passed.
C10_EmptyInputNoMatch ==
    (/\ Analysed
     /\ Blank(In.subject) /\ Blank(In.body) /\ Blank(In.fromEmail)
     /\ Blank(In.replyToEmail) /\ Blank(In.authResults)
     /\ In.attachments = <<>>) =>
        Res = [score |-> 0, reasons |-> <<>>, category |-> "Likely Safe"]


-----------------------------------------------------------------------------
(* Malformed URLs (C11)                                                    *)

\* safeGetDomainFromUrl resolves no domain for u
Malformed(u) == safeGetDomainFromUrl(u) = Null

\* detect with the lists of URLs and of link pairs given: lines 184-296
\* with urls and pairs in place of lines 201 and 235
detectOn(input, urls, pairs) ==
    LET text == normalizeStr(input.subject \o " " \o input.body)
        fromDomain == OrElse(emailToDomain(input.fromEmail), "")
        replyToDomain == OrElse(emailToDomain(input.replyToEmail), "")
        return(acc) ==
            [score |-> acc.score, reasons |-> acc.reasons,
             category |-> categorize(acc.score, input.options.threshold)]
    IN return(
         freeProviderRule(
           spfRule(
             replyToRule(
               attachmentRules(
                 linkRules(
                   urlRules(keywordRules([score |-> 0, reasons |-> <<>>], text, 1),
                            urls, input.options.strictBrandLookalikes, 1),
                   pairs, 1),
                 input.attachments, 1),
               fromDomain, replyToDomain),
             input.authResults),
           input.options.treatFreeProvidersAsSuspicious, fromDomain, text))

WellFormedUrls(urls) == SelectSeq(urls, LAMBDA u : ~Malformed(u))
WellFormedPairs(pairs) == SelectSeq(pairs, LAMBDA pr : ~Malformed(pr.href))

\* C11: a URL or link href for which safeGetDomainFromUrl resolves no
\* domain (it returns null, it does not throw) adds no reason and no score,
\* and the result of detect is the one it gives with the malformed URLs and
\* links taken out of the extracted lists: the other URLs and all later
\* rules are evaluated as if they were absent.
C11_MalformedUrlSkipped ==
    Analysed =>
        /\ Res = detectOn(In, WellFormedUrls(extractAllUrls(In.body)),
                          WellFormedPairs(extractLinkTextPairs(In.body)))
        /\ \A k \in 1..Len(extractLinkTextPairs(In.body)) :
              Malformed(extractLinkTextPairs(In.body)[k].href) =>
                  \A j \in 1..Len(Res.reasons) :
                      ~endsWith(Res.reasons[j],
                                "destination (" \o extractLinkTextPairs(In.body)[k].href \o ")")

\* a body whose first URL is malformed and whose later URL fired a rule has
\* been analysed, and so has an attachment after it
C11_Witness ==
    /\ Analysed
    /\ Len(extractAllUrls(In.body)) >= 2
    /\ Malformed(extractAllUrls(In.body)[1])
    /\ HasReason(Res.reasons, K_punycode) \/ HasReason(Res.reasons, K_suspiciousUrl)
    /\ HasReason(Res.reasons, K_dangerous)


-----------------------------------------------------------------------------
(* The WHATWG URL parser behind new URL(url) (WebsiteDetector.tsx line 50) *)
(* for an input without a base: the protocol and the hostname.             *)

Alpha == Lower \cup Upper
HexDigit == Digit \cup {"a", "b", "c", "d", "e", "f"}
SpecialSchemes == {"http", "https", "ftp", "ws", "wss"}
\* forbidden host code points (an opaque host may hold a percent sign)
ForbiddenOpaqueHost == ForbiddenHost \ {"%"}

\* the input without ASCII tab and newline
RECURSIVE removeTabNewline(_)
removeTabNewline(s) ==
    IF Len(s) = 0 THEN ""
    ELSE IF Len(s) = 1 THEN (IF s \in {"\t", "\n", "\r"} THEN "" ELSE s)
    ELSE removeTabNewline(SubSeq(s, 1, Len(s) \div 2))
         \o removeTabNewline(SubSeq(s, Len(s) \div 2 + 1, Len(s)))

\* the value of the digits s in the given base
RECURSIVE numberValue(_, _, _)
numberValue(s, base, acc) ==
    IF s = "" THEN acc
    ELSE numberValue(SubSeq(s, 2, Len(s)), base,
                     acc * base + (CHOOSE n \in 0..15 : At("0123456789abcdef", n + 1) = At(s, 1)))

\* the decimal digits of n
RECURSIVE toDecimal(_)
toDecimal(n) ==
    IF n < 10 THEN At("0123456789", n + 1)
    ELSE toDecimal(n \div 10) \o At("0123456789", (n % 10) + 1)

RECURSIVE power(_, _)
power(b, e) == IF e = 0 THEN 1 ELSE b * power(b, e - 1)

\* the IPv4 number parser on one part: <<value>>, or <<>> for a failure
ipv4Number(part) ==
    LET parse(digits, base, allowed) ==
            IF \A i \in 1..Len(digits) : At(digits, i) \in allowed
            THEN <<numberValue(digits, base, 0)>>
            ELSE <<>>
    IN IF part = "" THEN <<>>
       ELSE IF Len(part) >= 2 /\ SubSeq(part, 1, 2) = "0x"
            THEN parse(SubSeq(part, 3, Len(part)), 16, HexDigit)
       ELSE IF Len(part) >= 2 /\ At(part, 1) = "0"
            THEN parse(SubSeq(part, 2, Len(part)), 8, {"0", "1", "2", "3", "4", "5", "6", "7"})
       ELSE parse(part, 10, Digit)

\* the host ends in a number: its last label is made of digits, or is a
\* hexadecimal number
endsInNumber(parts) ==
    LET last == parts[Len(parts)]
    IN /\ last # ""
       /\ \/ \A i \in 1..Len(last) : At(last, i) \in Digit
          \/ /\ Len(last) >= 2 /\ SubSeq(last, 1, 2) = "0x"
             /\ \A i \in 3..Len(last) : At(last, i) \in HexDigit

\* the IPv4 parser and serialiser: Null for a failure.  The parts before
\* the last are one byte each and the last part fills the bytes that are
\* left, so that the address is built byte by byte.
ipv4Host(parts) ==
    LET n == Len(parts)
        byte(v, k) == toDecimal((v \div power(256, k)) % 256)
        lastBytes(v) ==
            LET from[k \in 0..(4 - n)] ==
                    IF k = 0 THEN byte(v, 0) ELSE byte(v, k) \o "." \o from[k - 1]
            IN from[4 - n]
        firstBytes(nums) ==
            LET upTo[k \in 0..(n - 1)] ==
                    IF k = 0 THEN "" ELSE upTo[k - 1] \o toDecimal(nums[k][1]) \o "."
            IN upTo[n - 1]
        parsed(nums) ==
            IF \E k \in 1..n : nums[k] = <<>> THEN Null
            ELSE IF \E k \in 1..(n - 1) : nums[k][1] > 255 THEN Null
            ELSE IF nums[n][1] \div power(256, 4 - n) > 255 THEN Null
            ELSE Some(firstBytes(nums) \o lastBytes(nums[n][1]))
    IN IF n > 4 THEN Null
       ELSE parsed([k \in 1..n |-> ipv4Number(parts[k])])

\* the host parser on the host string h of a special URL, lower-cased:
\* Null for a failure.  An IPv6 literal is taken as it stands when it is
\* made of hexadecimal digits and colons with a :: or seven colons, which
\* is right for a literal in its serialised form.
specialHost(h) ==
    LET inner == SubSeq(h, 2, Len(h) - 1)
        colons == Cardinality({i \in 1..Len(inner) : At(inner, i) = ":"})
        dropLastEmpty(parts) ==
            IF Len(parts) > 1 /\ parts[Len(parts)] = ""
            THEN SubSeq(parts, 1, Len(parts) - 1) ELSE parts
        domain(parts) == IF endsInNumber(parts) THEN ipv4Host(parts) ELSE Some(h)
    IN IF h = "" THEN Null
       ELSE IF At(h, 1) = "["
            THEN IF /\ At(h, Len(h)) = "]"
                    /\ \A i \in 1..Len(inner) : At(inner, i) \in HexDigit \cup {":"}
                    /\ colons >= 2 /\ colons <= 7
                    /\ (includes(inner, "::") \/ colons = 7)
                 THEN Some(h) ELSE Null
       ELSE IF \E i \in 1..Len(h) : At(h, i) \in ForbiddenHost THEN Null
       ELSE domain(dropLastEmpty(split(h, ".")))

\* the authority of the URL text from index start0 on: its host string,
\* without the user information and the port; Null when the port is not a
\* number
authorityHost(text, start0, delimiters) ==
    LET cut(start, stop, hostEnd) ==
            IF \E i \in (hostEnd + 2)..stop : At(text, i) \notin Digit THEN Null
            ELSE Some(SubSeq(text, start, hostEnd))
        hostPort(start, stop) ==
            IF At(text, start) = "["
            THEN cut(start, stop,
                     IF FirstIn(text, start, {"]"}) <= stop
                     THEN FirstIn(text, start, {"]"}) ELSE stop)
            ELSE cut(start, stop,
                     IF FirstIn(text, start, {":"}) <= stop
                     THEN FirstIn(text, start, {":"}) - 1 ELSE stop)
        authority(stop) ==
            LET at == LastIn(text, stop, {"@"})
            IN hostPort(IF at >= start0 THEN at + 1 ELSE start0, stop)
    IN authority(FirstIn(text, start0, delimiters) - 1)

\* new URL(url): [protocol, hostname], or Null when the constructor throws
parseURL(url) ==
    LET record(scheme, host) ==
            IF host = Null THEN Null
            ELSE Some([protocol |-> scheme \o ":", hostname |-> host[1]])
        special(scheme, low, from) ==
            LET hostString == authorityHost(low, FirstNotIn(low, from, {"/", "\\"}),
                                            {"/", "\\", "?", "#"})
            IN record(scheme, IF hostString = Null THEN Null ELSE specialHost(hostString[1]))
        opaque(text, hostString) ==
            IF hostString = Null THEN Null
            ELSE IF \E i \in 1..Len(hostString[1]) : At(hostString[1], i) \in ForbiddenOpaqueHost
                 THEN Null
            ELSE hostString
        other(scheme, text, from) ==
            IF startsWithAt(text, from, "//")
            THEN record(scheme, opaque(text, authorityHost(text, from + 2, {"/", "?", "#"})))
            ELSE record(scheme, Some(""))
        withScheme(text, colon) ==
            IF /\ colon <= Len(text) /\ colon > 1
               /\ At(text, 1) \in Alpha
               /\ \A i \in 2..(colon - 1) : At(text, i) \in Alpha \cup Digit \cup {"+", "-", "."}
            THEN IF toLowerCase(SubSeq(text, 1, colon - 1)) \in SpecialSchemes
                 THEN special(toLowerCase(SubSeq(text, 1, colon - 1)), toLowerCase(text),
                              colon + 1)
                 ELSE other(toLowerCase(SubSeq(text, 1, colon - 1)), text, colon + 1)
            ELSE Null
        stripped(text) == withScheme(text, FirstIn(text, 1, {":"}))
    IN stripped(removeTabNewline(trim(url)))


-----------------------------------------------------------------------------
(* The component WebsiteDetector (WebsiteDetector.tsx lines 37-152).  The  *)
(* pictograph that starts each summary is left out of the strings.         *)

\* the class of the regular expression invalidChars, line 79
InvalidHostnameChars ==
    {" ", "!", "@", "#", "$", "%", "^", "&", "*", "(", ")", ",", ";", ":", "'", "\"",
     "?", "/", "\\", "|", "<", ">", "[", "]", "{", "}"}

\* ipRegex.test(hostname), lines 92-93
ipRegex(hostname) ==
    LET low == toLowerCase(hostname)
        groups == split(hostname, ".")
        core(from, to) ==
            LET colon == FirstIn(low, from, {":"})
            IN /\ \A i \in from..to : At(low, i) \in HexDigit \cup {":"}
               /\ colon < to
    IN \/ /\ Len(groups) = 4
          /\ \A k \in 1..4 :
                /\ Len(groups[k]) \in 1..3
                /\ \A i \in 1..Len(groups[k]) : At(groups[k], i) \in Digit
       \/ core(IF At(low, 1) = "[" THEN 2 ELSE 1,
               IF At(low, Len(low)) = "]" THEN Len(low) - 1 ELSE Len(low))

\* allPassed with some for every
allPassed_some(cs) == \E k \in 1..Len(cs) : cs[k].passed

\* line 100
allPassed(cs) == \A k \in 1..Len(cs) : cs[k].passed

\* the six checks pushed on lines 60-97 for a parsed URL
checks(parsed) ==
    LET list(protocol, hostname) ==
            <<[label |-> "Valid URL format", passed |-> TRUE],
              [label |-> "Uses http or https protocol",
               passed |-> protocol = "http" \/ protocol = "https"],
              [label |-> "Uses secure HTTPS", passed |-> protocol = "https"],
              [label |-> "No invalid characters in hostname",
               passed |-> ~\E i \in 1..Len(hostname) : At(hostname, i) \in InvalidHostnameChars],
              [label |-> "Domain length is reasonable",
               passed |-> Len(hostname) > 1 /\ Len(hostname) <= 253],
              [label |-> "Domain is not a raw IP address", passed |-> ~ipRegex(hostname)]>>
    IN list(SubSeq(parsed.protocol, 1, Len(parsed.protocol) - 1), parsed.hostname)

\* lines 101-103
summaryMessage(parsed) ==
    IF allPassed(checks(parsed))
    THEN "This website looks legitimate: " \o parsed.hostname
    ELSE "This website may be suspicious: " \o parsed.hostname

\* the error path with its first item passed
invalidFormatResults_passed ==
    <<[label |-> "Valid URL format", passed |-> TRUE],
      [label |-> "Starts with http or https", passed |-> FALSE]>>

\* lines 52-55
invalidFormatResults ==
    <<[label |-> "Valid URL format", passed |-> FALSE],
      [label |-> "Starts with http or https", passed |-> FALSE]>>

\* line 56
invalidFormatSummary == "Invalid URL format."

\* a host name of 255 characters
LongHostname ==
    SubSeq(LongLabel, 1, 63) \o "." \o SubSeq(LongLabel, 1, 63) \o "."
    \o SubSeq(LongLabel, 1, 63) \o "." \o SubSeq(LongLabel, 1, 63)

\* what the session types into the field
TypedUrls ==
    {"", "example.com", "https://example.com", "http://example.com/login",
     "ftp://files.example.com/x", "mailto:admin@example.com",
     "http://192.168.1.1/login", "https://[::1]/", "https://a", "https://ab",
     "https://exa!mple.com", "http://pay pal.com", "https://" \o LongHostname}

\* onChange, line 139
setInput ==
    /\ \E v \in TypedUrls : wdInput' = v
    /\ UNCHANGED <<wdResults, wdSummary, wdChecked, wdPrevResults>>
    /\ UNCHANGED <<emailVars, domainVars, passwordVars, quizVars>>

\* onClick, line 143: validateWebsite(input), lines 42-111.  Nothing after
\* the inner try throws, so that the outer catch of lines 107-110 is not
\* taken.
validateWebsite ==
    LET done(parsed) ==
            /\ wdResults' = IF parsed = Null THEN invalidFormatResults ELSE checks(parsed[1])
            /\ wdSummary' = IF parsed = Null THEN invalidFormatSummary
                            ELSE summaryMessage(parsed[1])
    IN /\ done(parseURL(wdInput))
       /\ wdChecked' = Some(wdInput)
       /\ wdPrevResults' = wdResults
       /\ UNCHANGED wdInput
       /\ UNCHANGED <<emailVars, domainVars, passwordVars, quizVars>>

NextWebsite == setInput \/ validateWebsite

SpecWebsite == Init /\ [][NextWebsite]_vars

Checked == wdChecked # Null
Parsed == parseURL(wdChecked[1])
CheckLabels ==
    <<"Valid URL format", "Uses http or https protocol", "Uses secure HTTPS",
      "No invalid characters in hostname", "Domain length is reasonable",
      "Domain is not a raw IP address">>

\* C12: after a check of an input that parses as a URL, the checklist has
\* the six checks in the order format, protocol, HTTPS, characters, length,
\* not-IP; the summary is the 'looks legitimate' message exactly when all
\* six passed and the 'may be suspicious' message exactly when one failed.
C12_SummaryAgreesWithChecklist ==
    (Checked /\ Parsed # Null) =>
        /\ [k \in 1..Len(wdResults) |-> wdResults[k].label] = CheckLabels
        /\ (wdSummary = "This website looks legitimate: " \o Parsed[1].hostname)
              <=> (\A k \in 1..6 : wdResults[k].passed)
        /\ (wdSummary = "This website may be suspicious: " \o Parsed[1].hostname)
              <=> (\E k \in 1..6 : ~wdResults[k].passed)

\* a URL with all checks passed has been checked after another check
C12_Witness ==
    /\ Checked /\ Parsed # Null
    /\ \A k \in 1..Len(wdResults) : wdResults[k].passed
    /\ wdPrevResults # <<>>

\* C13: the check 'Domain length is reasonable' passes exactly for the
\* hostnames of 1 to 253 characters.
C13_LengthCheck1To253 ==
    (Checked /\ Parsed # Null) =>
        (wdResults[5].passed <=> Len(Parsed[1].hostname) \in 1..253)

\* C14: after a check of an input that does not parse, the checklist is
\* exactly the two failed items and the summary is 'Invalid URL format',
\* whatever the check before had left; after a check of an input that
\* parses, checklist and summary are those of that input alone.
C14_ResultsOfLatestCheckOnly ==
    Checked =>
        IF Parsed = Null
        THEN /\ Len(wdResults) = 2
             /\ \A k \in 1..2 : ~wdResults[k].passed
             /\ wdResults[1].label = "Valid URL format"
             /\ wdResults[2].label = "Starts with http or https"
             /\ wdSummary = "Invalid URL format."
        ELSE /\ wdResults = checks(Parsed[1])
             /\ wdSummary = summaryMessage(Parsed[1])

\* an input that does not parse has been checked when the checklist held
\* six items with passed ones among them
C14_Witness ==
    /\ Checked /\ Parsed = Null
    /\ Len(wdPrevResults) = 6
    /\ \E k \in 1..6 : wdPrevResults[k].passed
    /\ Len(wdResults) = 2


-----------------------------------------------------------------------------
(* isValidDomain of URLDetector (WebsiteDetector.tsx lines 183-192), as a  *)
(* function: it is applied to any domain of the set below.                 *)

\* lines 184-192
isValidDomain(domain) ==
    LET labels == split(domain, ".")
    IN \A k \in 1..Len(labels) :
          /\ labels[k] # ""
          /\ \A i \in 1..Len(labels[k]) : At(labels[k], i) \in Alpha \cup Digit \cup {"-"}
          /\ At(labels[k], 1) # "-"
          /\ At(labels[k], Len(labels[k])) # "-"

DomainLabels == {"", "a", "-a", "a-", "a_b", "1", "x-y", "123", "A1", "com"}
Domains == DomainLabels \cup {l1 \o "." \o l2 : l1, l2 \in DomainLabels}

InitDomain ==
    /\ EmailInit /\ WebsiteInit /\ PasswordInit /\ QuizInit
    /\ udDomain \in Domains
    /\ udValid = Null

\* the call isValidDomain(domain), line 262
callIsValidDomain ==
    /\ udValid = Null
    /\ udValid' = Some(isValidDomain(udDomain))
    /\ UNCHANGED udDomain
    /\ UNCHANGED <<emailVars, websiteVars, passwordVars, quizVars>>

NextDomain == callIsValidDomain

SpecDomain == InitDomain /\ [][NextDomain]_vars

\* what the description of the component (line 169) calls a numeric-only
\* domain: digits and dots
NumericOnly(d) == d # "" /\ \A i \in 1..Len(d) : At(d, i) \in Digit \cup {"."}

\* some label of d is empty, holds a character that is no letter, digit or
\* hyphen, or starts or ends with a hyphen
BadLabel(d) ==
    \E k \in 1..Len(split(d, ".")) :
        LET l == split(d, ".")[k]
        IN \/ l = ""
           \/ \E i \in 1..Len(l) : At(l, i) \notin Alpha \cup Digit \cup {"-"}
           \/ At(l, 1) = "-" \/ At(l, Len(l)) = "-"

\* C15: isValidDomain returns false when a label is empty, holds a
\* character outside letters, digits and hyphen, starts or ends with a
\* hyphen, or when the domain is numeric-only, and true for every other
\* domain.
C15_DomainValidation ==
    udValid # Null => (udValid[1] <=> ~(BadLabel(udDomain) \/ NumericOnly(udDomain)))


-----------------------------------------------------------------------------
(* The component PasswordSecurityAnalyzer (src/unnamed/part_001): its      *)
(* state, its handlers and the strength meter it renders.                  *)

\* the regular expressions of rules, lines 24-30, tested on pw
rules ==
    <<[label |-> "8+ characters",
       test |-> [pw \in {password} |->
                   \E i \in 1..(Len(pw) - 7) :
                       \A j \in i..(i + 7) : At(pw, j) \notin {"\n", "\r"}]],
      [label |-> "Uppercase",
       test |-> [pw \in {password} |-> \E i \in 1..Len(pw) : At(pw, i) \in Upper]],
      [label |-> "Lowercase",
       test |-> [pw \in {password} |-> \E i \in 1..Len(pw) : At(pw, i) \in Lower]],
      [label |-> "Number",
       test |-> [pw \in {password} |-> \E i \in 1..Len(pw) : At(pw, i) \in Digit]],
      [label |-> "Special character",
       test |-> [pw \in {password} |->
                   \E i \in 1..Len(pw) : At(pw, i) \notin Alpha \cup Digit]]>>

\* line 31
passed == Cardinality({k \in 1..Len(rules) : rules[k].test[password]})

\* line 32: the quotient passed / rules.length, kept as a fraction
score == [num |-> passed, den |-> Len(rules)]

\* score <= tenths / 10.  The quotient of line 32 is the double nearest to
\* passed / 5 and the literals 0.4 and 0.8 are the doubles nearest to 2/5
\* and 4/5, so that the comparison of doubles is that of the fractions.
ScoreAtMost(tenths) == score.num * 10 <= tenths * score.den

\* getBarColor with < for the first <=
getBarColor_strict ==
    IF score.num * 10 < 4 * score.den THEN "bg-red-500"
    ELSE IF ScoreAtMost(8) THEN "bg-yellow-400"
    ELSE "bg-green-500"

\* lines 33-37
getBarColor ==
    IF ScoreAtMost(4) THEN "bg-red-500"
    ELSE IF ScoreAtMost(8) THEN "bg-yellow-400"
    ELSE "bg-green-500"

\* the label rendered on line 157
strengthLabel ==
    IF ScoreAtMost(4) THEN "Weak" ELSE IF ScoreAtMost(8) THEN "Medium" ELSE "Strong"

\* the meter is rendered for a password that is not empty, line 146
meterShown == password # ""

\* PCS[*].name, lines 61-85
PCNames == {"Typical PC", "Gaming Rig", "Cloud Cluster", "Supercomputer"}

\* what the session types into the password field
TypedPasswords ==
    {"", "abc", "abcD", "abcD1", "A1!a", "abcD1!", "abcdefgh", "12345678",
     "        ", "Abcdefgh", "Abcdefg1", "Abcdef1!"}

\* onChange, line 132
setPassword ==
    /\ \E v \in TypedPasswords : password' = v
    /\ UNCHANGED <<show, showEncryption, expandedPCs>>
    /\ UNCHANGED <<emailVars, websiteVars, domainVars, quizVars>>

\* onClick, line 138
setShow ==
    /\ show' = ~show
    /\ UNCHANGED <<password, showEncryption, expandedPCs>>
    /\ UNCHANGED <<emailVars, websiteVars, domainVars, quizVars>>

\* onClick, line 236; the button is rendered for a password that is not
\* empty (line 177)
setShowEncryption ==
    /\ password # ""
    /\ showEncryption' = ~showEncryption
    /\ UNCHANGED <<password, show, expandedPCs>>
    /\ UNCHANGED <<emailVars, websiteVars, domainVars, quizVars>>

\* onClick, line 192, lines 119-121: !prev[name] is true for a name that
\* prev does not hold
togglePC ==
    /\ password # ""
    /\ \E name \in PCNames :
          expandedPCs' =
              [n \in DOMAIN expandedPCs \cup {name} |->
                  IF n # name THEN expandedPCs[n]
                  ELSE IF name \in DOMAIN expandedPCs THEN ~expandedPCs[name] ELSE TRUE]
    /\ UNCHANGED <<password, show, showEncryption>>
    /\ UNCHANGED <<emailVars, websiteVars, domainVars, quizVars>>

NextPassword == setPassword \/ setShow \/ setShowEncryption \/ togglePC

SpecPassword == Init /\ [][NextPassword]_vars

\* the number of the five rules that password satisfies
Satisfied ==
    (IF Len(password) >= 8 THEN 1 ELSE 0)
    + (IF \E i \in 1..Len(password) : At(password, i) \in Upper THEN 1 ELSE 0)
    + (IF \E i \in 1..Len(password) : At(password, i) \in Lower THEN 1 ELSE 0)
    + (IF \E i \in 1..Len(password) : At(password, i) \in Digit THEN 1 ELSE 0)
    + (IF \E i \in 1..Len(password) : At(password, i) \notin Lower \cup Upper \cup Digit
       THEN 1 ELSE 0)

\* C16: the number of satisfied rules of the five gives 'Weak' for 0 to 2,
\* 'Medium' for 3 and 4 and 'Strong' for 5 only, and the colour of the bar
\* agrees with the label: red with Weak, yellow with Medium, green with
\* Strong.
C16_StrengthByRuleCount ==
    /\ strengthLabel = (IF Satisfied <= 2 THEN "Weak"
                        ELSE IF Satisfied <= 4 THEN "Medium" ELSE "Strong")
    /\ getBarColor = (CASE strengthLabel = "Weak" -> "bg-red-500"
                        [] strengthLabel = "Medium" -> "bg-yellow-400"
                        [] strengthLabel = "Strong" -> "bg-green-500")

\* the meter shows a password that satisfies exactly two rules
C16_Witness == meterShown /\ Satisfied = 2 /\ strengthLabel = "Weak"


-----------------------------------------------------------------------------
(* Brand lookalikes (C17, C18)                                             *)

\* the domain that detect resolves for url, "" when it resolves none
DomainOf(url) == OrElse(safeGetDomainFromUrl(url), "")

\* the urls of the analysed body whose domain is a brand domain itself
ExactBrandUrls ==
    {k \in 1..Len(extractAllUrls(In.body)) :
        DomainOf(extractAllUrls(In.body)[k]) \in Elems(HIGH_VALUE_BRANDS)}

\* C17: a URL whose registered domain is exactly one of HIGH_VALUE_BRANDS
\* gets no 'Brand lookalike detected' reason, against any brand of the
\* list; no brand domain looks like a brand.
C17_ExactBrandNeverLookalike ==
    /\ \A b1 \in Elems(HIGH_VALUE_BRANDS), b2 \in Elems(HIGH_VALUE_BRANDS) :
          ~looksLikeBrand(b1, b2)
    /\ Analysed =>
          \A k \in ExactBrandUrls :
              \A j \in 1..Len(Res.reasons) :
                  ~startsWithAt(Res.reasons[j], 1,
                                ReasonTable[K_brand].prefix
                                  \o DomainOf(extractAllUrls(In.body)[k]) \o " ~ ")

\* a body with URLs on three brand domains has been analysed with the
\* option on
C17_Witness ==
    /\ Analysed
    /\ In.options.strictBrandLookalikes
    /\ Cardinality(ExactBrandUrls) >= 3

\* the brands that the domain resembles, as indices of HIGH_VALUE_BRANDS
Resembled(domain) ==
    {k \in 1..Len(HIGH_VALUE_BRANDS) : looksLikeBrand(domain, HIGH_VALUE_BRANDS[k])}

Min(S) == CHOOSE k \in S : \A j \in S : k <= j

\* one reason for each url from url k on that has a domain resembling a
\* brand, naming the first such brand
RECURSIVE FirstBrandReasons(_, _)
FirstBrandReasons(urls, k) ==
    IF k > Len(urls) THEN <<>>
    ELSE (IF DomainOf(urls[k]) # "" /\ Resembled(DomainOf(urls[k])) # {}
          THEN <<ReasonTable[K_brand].prefix \o DomainOf(urls[k]) \o " ~ "
                   \o HIGH_VALUE_BRANDS[Min(Resembled(DomainOf(urls[k])))]>>
          ELSE <<>>)
         \o FirstBrandReasons(urls, k + 1)

\* the analysed input with the option strictBrandLookalikes off
StrictOff == [In EXCEPT !.options.strictBrandLookalikes = FALSE]

\* C18: with strictBrandLookalikes off there is no 'Brand lookalike
\* detected' reason; with it on, the reasons of that kind are one for each
\* extracted URL that resembles a brand, in URL order, each naming the first
\* brand of HIGH_VALUE_BRANDS that the domain resembles, and each is worth
\* 4 points over the score with the option off.
C18_BrandLookalikeOption ==
    Analysed =>
        /\ W_brandLookalike = 4
        /\ ~In.options.strictBrandLookalikes => ~HasReason(Res.reasons, K_brand)
        /\ In.options.strictBrandLookalikes =>
              /\ SelectSeq(Res.reasons, LAMBDA r : IsKind(r, K_brand))
                   = FirstBrandReasons(extractAllUrls(In.body), 1)
              /\ Res.score = detect(StrictOff).score
                              + 4 * CountReason(Res.reasons, K_brand)
              /\ SelectSeq(Res.reasons, LAMBDA r : ~IsKind(r, K_brand))
                   = detect(StrictOff).reasons

\* a URL whose domain resembles two brands has been analysed with the
\* option on and has one brand reason
C18_Witness ==
    /\ Analysed
    /\ In.options.strictBrandLookalikes
    /\ \E k \in 1..Len(extractAllUrls(In.body)) :
          Cardinality(Resembled(DomainOf(extractAllUrls(In.body)[k]))) >= 2
    /\ CountReason(Res.reasons, K_brand) = 1


-----------------------------------------------------------------------------
(* detect on the headers From and Reply-To (C19, C20)                      *)

HeaderSubjects == {"", "Your PayPal invoice", "pineapple recipes"}
HeaderBodies == {"", "Sign in to NETFLIX today"}
HeaderFroms ==
    {"", "no address", "billing@legitvendor.com", "PayPal <service@gmail.com>",
     "SERVICE@MAIL.YAHOO.COM", "a@gmail.com.evil.com"}
HeaderReplyTos ==
    {"", "no address", "help@mail.legitvendor.com", "Help <help@legitvendor.com>",
     "Help <help@legitvendor.com> ", "helpcenter@gmail.com"}

InitHeaders ==
    /\ subject \in HeaderSubjects
    /\ body \in HeaderBodies
    /\ fromEmail \in HeaderFroms
    /\ replyTo \in HeaderReplyTos
    /\ authResults = "" /\ attachmentsRaw = ""
    /\ treatFree \in BOOLEAN /\ strictBrands = FALSE
    /\ threshold = Num(7)
    /\ result = Null /\ lastInput = Null
    /\ edits = 0
    /\ WebsiteInit /\ DomainInit /\ PasswordInit /\ QuizInit

SpecHeaders == InitHeaders /\ [][NextDetect]_vars

\* the names of the brands: a brand domain up to its first dot
BrandNames ==
    {SubSeq(b, 1, FirstIn(b, 1, {"."}) - 1) : b \in Elems(HIGH_VALUE_BRANDS)}

FromDomain == OrElse(emailToDomain(In.fromEmail), "")
ReplyToDomain == OrElse(emailToDomain(In.replyToEmail), "")

\* the analysed email pretends to be corporate
PretendsCorporate ==
    /\ FromDomain \in Elems(FREE_PROVIDERS)
    /\ \E name \in BrandNames : includes(toLowerCase(In.subject \o " " \o In.body), name)

\* the analysed input with the option treatFreeProvidersAsSuspicious off
FreeOff == [In EXCEPT !.options.treatFreeProvidersAsSuspicious = FALSE]

\* C19: detect adds the reason 'Corporate-sounding email sent from free
\* provider' and 2 points exactly when treatFreeProvidersAsSuspicious is on,
\* the From domain is one of FREE_PROVIDERS and the lower-cased subject and
\* body contain the name of a brand; it adds the reason once, as the last
\* reason, and never when the option is off.
C19_FreeProviderRule ==
    Analysed =>
        /\ W_freeProviderAsCorp = 2
        /\ CountReason(Res.reasons, K_free)
             = (IF In.options.treatFreeProvidersAsSuspicious /\ PretendsCorporate
                THEN 1 ELSE 0)
        /\ HasReason(Res.reasons, K_free) =>
              Res.reasons[Len(Res.reasons)]
                 = ReasonTable[K_free].prefix \o FromDomain \o ")"
        /\ Res.score = detect(FreeOff).score + 2 * CountReason(Res.reasons, K_free)
        /\ SelectSeq(Res.reasons, LAMBDA r : ~IsKind(r, K_free)) = detect(FreeOff).reasons

\* a mail from a free provider whose subject names a brand has been
\* analysed with the option on, and the rule has fired
C19_Witness ==
    /\ Analysed
    /\ In.options.treatFreeProvidersAsSuspicious
    /\ PretendsCorporate
    /\ HasReason(Res.reasons, K_free)

\* the host of the address in a header text: what follows the first @ up
\* to white space or one of > , ; and "" without an @
AddressHost(e) ==
    IF FirstIn(e, 1, {"@"}) > Len(e) THEN ""
    ELSE SubSeq(toLowerCase(e), FirstIn(e, 1, {"@"}) + 1,
                FirstIn(e, FirstIn(e, 1, {"@"}) + 1, Space \cup {">", ",", ";"}) - 1)

\* the registered domain of a host, the host itself when it has none
RegisteredDomain(h) == OrElse(getDomain(h), h)

\* C20: detect adds the From/Reply-To mismatch reason and 4 points exactly
\* when the From and the Reply-To address both yield a domain that is not
\* empty and the two domains differ; an empty Reply-To or an empty From
\* never triggers it, and two addresses on the same registered domain never
\* trigger it.
C20_ReplyToOptional ==
    Analysed =>
        /\ W_replyToMismatch = 4
        /\ HasReason(Res.reasons, K_replyTo)
             <=> (FromDomain # "" /\ ReplyToDomain # "" /\ FromDomain # ReplyToDomain)
        /\ CountReason(Res.reasons, K_replyTo) <= 1
        /\ (In.fromEmail = "" \/ In.replyToEmail = "") => ~HasReason(Res.reasons, K_replyTo)
        /\ ( /\ AddressHost(In.fromEmail) # ""
             /\ RegisteredDomain(AddressHost(In.fromEmail))
                  = RegisteredDomain(AddressHost(In.replyToEmail)) )
             => ~HasReason(Res.reasons, K_replyTo)


-----------------------------------------------------------------------------
(* The component DetectionQuizzes (src/unnamed/part_000): the tabbed       *)
(* container and the QuizShell mounted in each tab.                        *)

\* the questions prop of the QuizShell in tab t
questionsOf(t) == tabs[CHOOSE k \in 1..Len(tabs) : tabs[k].id = t].questions

\* line 30, in the QuizShell of tab t
q(t) == questionsOf(t)[quiz[t].index + 1]

\* style.display of the div that holds tab t, line 310
display(t) == IF active = t THEN "block" ELSE "none"

\* the choices the session clicks: the answer and the choice after it
ClickedChoices(question) ==
    {question.answer, (question.answer + 1) % question.choices}

\* the other variables of the module
OtherVars == <<emailVars, websiteVars, domainVars, passwordVars>>

\* setActive if each tab mounted its quiz only while active
\* (active === t.id && t.comp): the quiz left is unmounted
setActive_remount ==
    /\ \E t \in TabIds :
          /\ active' = t
          /\ quiz' = IF t = active THEN quiz
                     ELSE [quiz EXCEPT ![active] = QuizShellInit]
    /\ UNCHANGED OtherVars

\* onClick of a nav button, line 297; the four QuizShells stay mounted
\* (lines 309-313)
setActive ==
    /\ \E t \in TabIds :
          /\ active' = t
          /\ UNCHANGED quiz
    /\ UNCHANGED OtherVars

\* onClick of a choice of the visible quiz, line 76
setSelected ==
    /\ ~quiz[active].finished
    /\ \E i \in ClickedChoices(q(active)) :
          quiz' = IF quiz[active].showExplanation THEN quiz
                  ELSE [quiz EXCEPT ![active].selected = Some(i)]
    /\ UNCHANGED active
    /\ UNCHANGED OtherVars

\* lines 32-37; the button is disabled as on line 96
submit ==
    /\ ~quiz[active].finished
    /\ quiz[active].selected # Null /\ ~quiz[active].showExplanation
    /\ quiz' = [quiz EXCEPT
                  ![active].score =
                      IF quiz[active].selected = Some(q(active).answer) THEN @ + 1 ELSE @,
                  ![active].showExplanation = TRUE]
    /\ UNCHANGED active
    /\ UNCHANGED OtherVars

\* lines 39-47; the button is disabled as on line 104
next ==
    /\ ~quiz[active].finished
    /\ quiz[active].showExplanation
    /\ quiz' = IF quiz[active].index + 1 >= Len(questionsOf(active))
               THEN [quiz EXCEPT ![active].showExplanation = FALSE,
                                 ![active].selected = Null,
                                 ![active].finished = TRUE]
               ELSE [quiz EXCEPT ![active].showExplanation = FALSE,
                                 ![active].selected = Null,
                                 ![active].index = @ + 1]
    /\ UNCHANGED active
    /\ UNCHANGED OtherVars

\* lines 49-55; the button is rendered when finished, line 125
restart ==
    /\ quiz[active].finished
    /\ quiz' = [quiz EXCEPT ![active] = QuizShellInit]
    /\ UNCHANGED active
    /\ UNCHANGED OtherVars

NextQuizzes == setActive \/ setSelected \/ submit \/ next \/ restart

\* DetectionQuizzes mounted with any initialTab, line 277
InitQuizzes ==
    /\ EmailInit /\ WebsiteInit /\ DomainInit /\ PasswordInit
    /\ active \in TabIds
    /\ quiz = [t \in TabIds |-> QuizShellInit]

SpecQuizzes == InitQuizzes /\ [][NextQuizzes]_vars

\* C21: a step that selects another topic changes the active tab and
\* nothing else: index, selected, score, showExplanation and finished of
\* each of the four quizzes are as before; a quiz that is not the active
\* one never changes, so that a topic is resumed where it was left; and at
\* any time exactly one topic is displayed, the active one.
C21_TopicSwitchKeepsQuizzes ==
    /\ [](Cardinality({t \in TabIds : display(t) = "block"}) = 1
            /\ Cardinality(TabIds) = 4 /\ DOMAIN quiz = TabIds)
    /\ [][ /\ active' # active => UNCHANGED <<quiz, OtherVars>>
           /\ \A t \in TabIds : t # active => quiz'[t] = quiz[t] ]_vars

\* the URL topic is shown while the phishing quiz waits at its second
\* question with one point, the website quiz is finished and the email quiz
\* shows an explanation
C21_Witness ==
    /\ active = "url"
    /\ quiz["phish"].index = 1 /\ quiz["phish"].score = 1
    /\ quiz["website"].finished
    /\ quiz["email"].showExplanation
====
